---- MODULE Spec2Model ----
(***************************************************************************)
(* Ripple simulation of raindrop-ripples: the CPU height-field simulation  *)
(* (RippleSimulation), the WebGPU ping-pong simulation                     *)
(* (GPURippleSimulation) and the animation loop that drives them.          *)
(*                                                                         *)
(* Numbers.  The code computes in IEEE doubles and stores the grids in     *)
(* Float32Array.  Here every real is a fixed-point integer counting        *)
(* thousandths (Scale), and every product or quotient is rounded to the    *)
(* nearest thousandth, half away from zero.                                *)
(***************************************************************************)
EXTENDS Integers, Sequences, FiniteSets, TLC

\* ------------------------------------------------------------------ bounds
\* Grid side of the simulations under test (constructor argument resolution).
Res == 6
\* Calls of update() in one run.
MaxUpdates == 3
\* Calls of addRipple() in one run.
MaxRipples == 2
\* Animation frames in one run of the application.
MaxTicks == 2
\* Particle slots of the raindrop system (constructor option maxParticles).
MaxParticles == 2
\* Impacts handed to one processImpacts() call.
MaxImpacts == 2
\* Last clock value, in milliseconds, of a run of the note throttle.
MaxClock == 120
\* Last clock value, in milliseconds, of a run of the fallback voices.
MaxVoiceClock == 2000
\* Calls of setDecayTime() in one run of the fallback voices.
MaxDecayChanges == 1
\* Calls of RaindropSystem.update() in one run of the raindrops alone.
MaxRainTicks == 4
\* Calls of init() in one run of the audio life cycle.
MaxInitCalls == 2
\* Calls of dispose() in one run of the audio life cycle.
MaxDisposals == 1
\* Last clock value, in milliseconds, of a run of the audio life cycle.
MaxLifeClock == 100

\* -------------------------------------------------------------- arithmetic
Scale == 10 * 10 * 10

Abs(n) == IF n < 0 THEN -n ELSE n

\* n / d rounded to the nearest integer, half away from zero (d > 0).
RoundDiv(n, d) ==
    IF n >= 0 THEN (2 * n + d) \div (2 * d) ELSE -((2 * (-n) + d) \div (2 * d))

\* Product of two fixed-point numbers.
Mul(a, b) == RoundDiv(a * b, Scale)

Min2(a, b) == IF a <= b THEN a ELSE b

RECURSIVE SqrtIter(_, _, _)
SqrtIter(n, lo, hi) ==
    IF lo >= hi THEN lo
    ELSE LET mid == (lo + hi + 1) \div 2
         IN IF mid * mid <= n THEN SqrtIter(n, mid, hi) ELSE SqrtIter(n, lo, mid - 1)

\* Math.sqrt of n millionths, in thousandths (floor).
Sqrt(n) == SqrtIter(n, 0, 46340)

\* ------------------------------------------------------- program constants
lakeSize == 20
radius == 3
waveSpeedDefault == 300
dampingDefault == 985
edgeFadeWidthDefault == 25
edgeFadeStrengthDefault == 920
gpuWaveSpeed == 300
gpuDamping == 995
spawnRate == 2
spawnAreaX == 18
spawnAreaZ == 18
spawnHeight == 12
gravity == -15
minTimeBetweenNotes == 50
maxVoices == 16
decayTimeDefault == 2500

\* World coordinates and strengths handed to addRipple: the lake spans
\* -10..10, so 15 and -15 lie outside it and 10 is its border (u = 1).
WorldPoints ==
    { <<x * Scale, z * Scale>> :
        <<x, z>> \in { <<0, 0>>, <<-10, 0>>, <<10, 5>>, <<15, 0>>, <<0, -15>> } }
Strengths == { Scale \div 2 }

VARIABLES
    constructed,        \* the class the caller instantiated
    \* RippleSimulation
    resolution, preferGPU, useGPU, gpuSimulation, ripples,
    waveSpeed, damping, edgeFadeWidth, edgeFadeStrength,
    buffers,            \* the three Float32Array objects, by identity 1..3
    heightCurrent, heightPrevious, heightNext,   \* references into buffers
    heightTexture,      \* identity of the DataTexture, 0 before init()
    textureData,        \* heightTexture.image.data, one record per cell
    \* GPURippleSimulation
    pendingImpacts, pingPong,
    textures,           \* contents of textureA and textureB, by identity "A", "B"
    lastComputedTexture,    \* _lastComputedTexture: "undefined", "A" or "B"
    dispatches,         \* every renderer.compute() call so far, in order
    \* App and its RaindropSystem and LakeSurface
    pc,                 \* the statement of animate() that runs next
    tick,               \* animation frames started
    impacts,            \* the list raindrops.update() returned this frame
    impactIndex,        \* position of the addRipple loop in impacts
    raindrops,          \* fields of the RaindropSystem
    lakePositions,      \* z and normal of every vertex of the lake mesh
    reads,              \* every read of the simulation by a consumer
    causticsRenderer,   \* fields of the CausticsRenderer, or "null"
    audioSystem,        \* fields of the AudioSystem, or "null"
    \* history
    lastCall, nUpdates, nRipples, acceptedLog, injectedLog, waveRead

simVars == <<resolution, preferGPU, useGPU, gpuSimulation, ripples,
             waveSpeed, damping, edgeFadeWidth, edgeFadeStrength,
             buffers, heightCurrent, heightPrevious, heightNext,
             heightTexture, textureData>>
gpuVars == <<pendingImpacts, pingPong, textures, lastComputedTexture, dispatches>>
appVars == <<pc, tick, impacts, impactIndex, raindrops, lakePositions, reads,
             causticsRenderer, audioSystem>>
histVars == <<lastCall, nUpdates, nRipples, acceptedLog, injectedLog, waveRead>>
vars == <<constructed, simVars, gpuVars, appVars, histVars>>

\* ------------------------------------------------------------------- grids
Cells(res) == 0 .. (res * res - 1)

\* new Float32Array(n): n zeros.
Float32Array(n) == [i \in 0 .. (n - 1) |-> 0]

ZeroTexel == [r |-> 0, g |-> 0, b |-> 0, a |-> 0]

\* new Float32Array(res * res * 4), viewed one 4-channel record per cell.
TextureArray(res) == [i \in Cells(res) |-> ZeroTexel]

IsInterior(x, y, res) == x >= 1 /\ x < res - 1 /\ y >= 1 /\ y < res - 1

\* ------------------------------------------------- RippleSimulation (CPU)
\* Mutant: the smoothstep runs the other way, 1 at the edge.
getEdgeFactor_Inverted(x, y, res, fadeWidth) ==
    LET minDist == Min2(Min2(x, res - 1 - x), Min2(y, res - 1 - y))
    IN IF minDist >= fadeWidth THEN Scale
       ELSE LET t == RoundDiv(minDist * Scale, fadeWidth)
            IN Scale - Mul(Mul(t, t), 3 * Scale - 2 * t)

getEdgeFactor(x, y, res, fadeWidth) ==
    LET minDist == Min2(Min2(x, res - 1 - x), Min2(y, res - 1 - y))
    IN IF minDist >= fadeWidth THEN Scale
       ELSE LET t == RoundDiv(minDist * Scale, fadeWidth)
            IN Mul(Mul(t, t), 3 * Scale - 2 * t)

\* u = (x / lakeSize) + 0.5
ToTexCoord(x) == RoundDiv(x, lakeSize) + Scale \div 2

\* Mutant: the upper bounds of the range test are forgotten.
InUnitSquare_NoUpper(u, v) == u >= 0 /\ v >= 0

\* u >= 0 && u <= 1 && v >= 0 && v <= 1
InUnitSquare(u, v) == u >= 0 /\ u <= Scale /\ v >= 0 /\ v <= Scale

\* The CPU branch of addRipple: the queue after the call.
PushRipple(queue, x, z, strength) ==
    LET u == ToTexCoord(x)
        v == ToTexCoord(z)
    IN IF InUnitSquare(u, v)
       THEN Append(queue, [u |-> u, v |-> v, strength |-> strength])
       ELSE queue

\* Mutant: the centre cell is rounded up instead of down.
CentreCell_RoundUp(u, res) == (u * res + Scale - 1) \div Scale

\* Math.floor(ripple.u * res)
CentreCell(u, res) == (u * res) \div Scale

\* strength * falloff * falloff at offset (dx, dy) from the centre.
Impulse(strength, dx, dy) ==
    LET dist == Sqrt((dx * dx + dy * dy) * Scale * Scale)
        falloff == Scale - RoundDiv(dist, radius)
    IN Mul(Mul(strength, falloff), falloff)

\* Mutant: the impulse overwrites the cell instead of being added to it.
InjectRipple_Overwrite(grid, ripple, res) ==
    IF res <= 0 THEN grid
    ELSE
    LET cx == CentreCell(ripple.u, res)
        cy == CentreCell(ripple.v, res)
    IN [idx \in DOMAIN grid |->
          LET dx == (idx % res) - cx
              dy == (idx \div res) - cy
          IN IF /\ Abs(dx) <= radius /\ Abs(dy) <= radius
                /\ Sqrt((dx * dx + dy * dy) * Scale * Scale) <= radius * Scale
             THEN Impulse(ripple.strength, dx, dy)
             ELSE grid[idx]]

\* One ripple's injection loop over the (2 radius + 1)^2 window.
InjectRipple(grid, ripple, res) ==
    IF res <= 0 THEN grid    \* no px satisfies px >= 0 && px < res
    ELSE
    LET cx == CentreCell(ripple.u, res)
        cy == CentreCell(ripple.v, res)
    IN [idx \in DOMAIN grid |->
          LET dx == (idx % res) - cx
              dy == (idx \div res) - cy
          IN IF /\ Abs(dx) <= radius /\ Abs(dy) <= radius
                /\ Sqrt((dx * dx + dy * dy) * Scale * Scale) <= radius * Scale
             THEN grid[idx] + Impulse(ripple.strength, dx, dy)
             ELSE grid[idx]]

RECURSIVE InjectAll(_, _, _)
InjectAll(grid, queue, res) ==
    IF queue = <<>> THEN grid
    ELSE InjectAll(InjectRipple(grid, Head(queue), res), Tail(queue), res)

\* Mutant: the previous height is read from the current grid.
NewHeight_PreviousFromCurrent(cur, prev, idx, res, ws, damp, fadeWidth, fadeStrength) ==
    LET c2 == Mul(ws, ws)
        current == cur[idx]
        laplacian == cur[idx - 1] + cur[idx + 1] + cur[idx - res] + cur[idx + res]
                     - 4 * current
        damped == Mul(2 * current - current + Mul(c2, laplacian), damp)
        edgeFactor == getEdgeFactor(idx % res, idx \div res, res, fadeWidth)
    IN IF edgeFactor < Scale
       THEN Mul(damped, fadeStrength + Mul(Scale - fadeStrength, edgeFactor))
       ELSE damped

\* The value the wave loop computes for interior cell idx.
NewHeight(cur, prev, idx, res, ws, damp, fadeWidth, fadeStrength) ==
    LET c2 == Mul(ws, ws)
        current == cur[idx]
        previous == prev[idx]
        left == cur[idx - 1]
        right == cur[idx + 1]
        up == cur[idx - res]
        down == cur[idx + res]
        laplacian == left + right + up + down - 4 * current
        wave == 2 * current - previous + Mul(c2, laplacian)
        damped == Mul(wave, damp)
        edgeFactor == getEdgeFactor(idx % res, idx \div res, res, fadeWidth)
    IN IF edgeFactor < Scale
       THEN Mul(damped, fadeStrength + Mul(Scale - fadeStrength, edgeFactor))
       ELSE damped

\* The wave loop: heightNext after it.  Only interior cells are written;
\* the others keep what the array held.
WaveStep(cur, prev, next, res, ws, damp, fadeWidth, fadeStrength) ==
    IF res <= 2 THEN next    \* the loops from 1 to res - 2 have no iteration
    ELSE
    [idx \in DOMAIN next |->
        IF IsInterior(idx % res, idx \div res, res)
        THEN NewHeight(cur, prev, idx, res, ws, damp, fadeWidth, fadeStrength)
        ELSE next[idx]]

\* Mutant: the fourth channel is written as 1, as a texel without normals.
WriteTexture_AlphaOne(h, res) ==
    [i \in DOMAIN h |-> [r |-> h[i], g |-> 0, b |-> 0, a |-> Scale]]

\* The texture loop: height, 0, normal.x, normal.y of every cell.
WriteTexture(h, res) ==
    IF res <= 0 THEN [i \in DOMAIN h |-> ZeroTexel]    \* no iteration: data stays 0
    ELSE
    [i \in DOMAIN h |->
        LET x == i % res
            y == i \div res
            hL == IF x > 0 THEN h[i - 1] ELSE h[i]
            hR == IF x < res - 1 THEN h[i + 1] ELSE h[i]
            hU == IF y > 0 THEN h[i - res] ELSE h[i]
            hD == IF y < res - 1 THEN h[i + res] ELSE h[i]
        IN [r |-> h[i], g |-> 0, b |-> (hL - hR) * 2, a |-> (hU - hD) * 2]]

\* ------------------------------------------------- GPURippleSimulation
TextureNames == {"A", "B"}

\* Mutant: the second node is built with the arguments of the first.
computeBtoA_SameDirection == [src |-> "A", dst |-> "B"]

\* The two wave nodes built by buildComputeNodes: waveSimulationFn(src, dst).
computeAtoB == [src |-> "A", dst |-> "B"]
computeBtoA == [src |-> "B", dst |-> "A"]

\* addRipple of the GPU simulation: the queue after the call.
GPUPushImpact(queue, x, z, strength, res) ==
    LET u == ToTexCoord(x)
        v == ToTexCoord(z)
    IN IF InUnitSquare(u, v)
       THEN Append(queue, [x |-> u * res, y |-> v * res, strength |-> strength])
       ELSE queue

\* One impactFn dispatch over texture tex: one invocation per cell, each
\* reading and writing its own texel only.
ImpactDispatch(tex, impact, res) ==
    [idx \in DOMAIN tex |->
        LET dx == (idx % res) * Scale - impact.x
            dy == (idx \div res) * Scale - impact.y
            dist == Sqrt(dx * dx + dy * dy)
            falloff == Scale - RoundDiv(dist, radius)
            impulse == Mul(Mul(impact.strength, falloff), falloff)
        IN IF dist < radius * Scale
           THEN [tex[idx] EXCEPT !.r = @ + impulse]
           ELSE tex[idx]]

RECURSIVE GPUInjectAll(_, _, _)
GPUInjectAll(tex, queue, res) ==
    IF queue = <<>> THEN tex
    ELSE GPUInjectAll(ImpactDispatch(tex, Head(queue), res), Tail(queue), res)

\* One waveSimulationFn dispatch: the destination texture after it.
WaveDispatch(src, res) ==
    [idx \in DOMAIN src |->
        IF ~IsInterior(idx % res, idx \div res, res)
        THEN [r |-> 0, g |-> 0, b |-> 0, a |-> Scale]
        ELSE LET height == src[idx].r
                 velocity == src[idx].g
                 left == src[idx - 1].r
                 right == src[idx + 1].r
                 up == src[idx - res].r
                 down == src[idx + res].r
                 laplacian == left + right + up + down - height * 4
                 c2 == Mul(gpuWaveSpeed, gpuWaveSpeed)
                 newVelocity == Mul(velocity + Mul(laplacian, c2), gpuDamping)
             IN [r |-> height + newVelocity, g |-> newVelocity,
                 b |-> (left - right) * 2, a |-> (up - down) * 2]]

\* Mutant: one fixed texture is handed out.
GPUgetHeightTexture_AlwaysA == "A"

\* getHeightTexture of the GPU simulation: _lastComputedTexture || textureA.
GPUgetHeightTexture ==
    IF lastComputedTexture = "undefined" THEN "A" ELSE lastComputedTexture

\* No GPU simulation object exists.
GPUAbsent ==
    /\ pendingImpacts = <<>>
    /\ pingPong = 0
    /\ textures = <<>>
    /\ lastComputedTexture = "undefined"
    /\ dispatches = <<>>

\* State after new GPURippleSimulation(renderer, res).
GPUConstructed(res) ==
    /\ pendingImpacts = <<>>
    /\ pingPong = 0
    /\ textures = [t \in TextureNames |-> TextureArray(res)]
    /\ lastComputedTexture = "undefined"
    /\ dispatches = <<>>

\* GPURippleSimulation.addRipple(x, z, strength).
GPUAddRippleStep(x, z, strength) ==
    /\ pendingImpacts' = GPUPushImpact(pendingImpacts, x, z, strength, resolution)
    /\ acceptedLog' = acceptedLog \o
          SubSeq(pendingImpacts', Len(pendingImpacts) + 1, Len(pendingImpacts'))
    /\ UNCHANGED <<pingPong, textures, lastComputedTexture, dispatches>>

\* GPURippleSimulation.update(renderer): the impact dispatches on the source
\* texture, then one wave dispatch, then the ping-pong flip.
GPUUpdateStep ==
    LET currentTexture == IF pingPong = 0 THEN "A" ELSE "B"
        node == IF pingPong = 0 THEN computeAtoB ELSE computeBtoA
        injected == GPUInjectAll(textures[currentTexture], pendingImpacts, resolution)
        afterImpacts == [textures EXCEPT ![currentTexture] = injected]
        call == nUpdates + 1
    IN /\ textures' = [afterImpacts EXCEPT
                          ![node.dst] = WaveDispatch(afterImpacts[node.src], resolution)]
       /\ waveRead' = afterImpacts[node.src]
       /\ dispatches' = dispatches
             \o [i \in 1 .. Len(pendingImpacts) |->
                    [kind |-> "impact", src |-> currentTexture, dst |-> currentTexture,
                     tick |-> call]]
             \o << [kind |-> "wave", src |-> node.src, dst |-> node.dst, tick |-> call] >>
       /\ injectedLog' = injectedLog \o pendingImpacts
       /\ pendingImpacts' = <<>>
       /\ lastComputedTexture' = IF pingPong = 0 THEN "B" ELSE "A"
       /\ pingPong' = IF pingPong = 0 THEN 1 ELSE 0

\* ------------------------------------------------- RippleSimulation object
\* State after new RippleSimulation(renderer, res, prefer).
Constructed(res, prefer) ==
    /\ resolution = res
    /\ preferGPU = prefer
    /\ useGPU = FALSE
    /\ gpuSimulation = "null"
    /\ ripples = <<>>
    /\ waveSpeed = waveSpeedDefault
    /\ damping = dampingDefault
    /\ edgeFadeWidth = edgeFadeWidthDefault
    /\ edgeFadeStrength = edgeFadeStrengthDefault
    /\ buffers = [b \in 1 .. 3 |-> Float32Array(res * res)]
    /\ heightCurrent = 1
    /\ heightPrevious = 2
    /\ heightNext = 3
    /\ heightTexture = 0
    /\ textureData = <<>>

HistInit ==
    /\ lastCall = [op |-> "new"]
    /\ nUpdates = 0
    /\ nRipples = 0
    /\ acceptedLog = <<>>
    /\ injectedLog = <<>>
    /\ waveRead = <<>>

\* No RippleSimulation object exists.
Absent ==
    /\ resolution = Res
    /\ preferGPU = FALSE
    /\ useGPU = FALSE
    /\ gpuSimulation = "null"
    /\ ripples = <<>>
    /\ waveSpeed = waveSpeedDefault
    /\ damping = dampingDefault
    /\ edgeFadeWidth = edgeFadeWidthDefault
    /\ edgeFadeStrength = edgeFadeStrengthDefault
    /\ buffers = <<>>
    /\ heightCurrent = 1
    /\ heightPrevious = 2
    /\ heightNext = 3
    /\ heightTexture = 0
    /\ textureData = <<>>

\* The addRipple, update and getHeightTexture test: this.useGPU && this.gpuSimulation.
Delegates == useGPU /\ gpuSimulation # "null"

\* Mutant: the override leaves useGPU as it found it.
OverriddenUseGPU_Kept(u) == u

\* The debugging override's assignment this.useGPU = false.
OverriddenUseGPU(u) == FALSE

\* init(): the GPU simulation is constructed when preferred and supported,
\* then switched off again by the debugging override; the data texture is
\* created.
InitCall(gpuSupported, gpuConstructs) ==
    /\ LET tried == preferGPU /\ gpuSupported
           gpu1 == IF tried /\ gpuConstructs THEN "gpu" ELSE gpuSimulation
           useGPU1 == IF tried THEN gpuConstructs ELSE useGPU
       IN /\ useGPU' = IF useGPU1 THEN OverriddenUseGPU(useGPU1) ELSE useGPU1
          /\ gpuSimulation' = IF useGPU1 THEN "null" ELSE gpu1
    /\ IF gpuSimulation' = "null"
       THEN UNCHANGED gpuVars
       ELSE /\ pendingImpacts' = <<>>
            /\ pingPong' = 0
            /\ textures' = [t \in TextureNames |-> TextureArray(resolution)]
            /\ lastComputedTexture' = "undefined"
            /\ dispatches' = <<>>
    /\ heightTexture' = heightTexture + 1
    /\ textureData' = TextureArray(resolution)
    /\ lastCall' = [op |-> "init",
                    gpuAvailable |-> preferGPU /\ gpuSupported /\ gpuConstructs]
    /\ UNCHANGED <<constructed, resolution, preferGPU, ripples, waveSpeed, damping,
                   edgeFadeWidth, edgeFadeStrength, buffers,
                   heightCurrent, heightPrevious, heightNext>>
    /\ UNCHANGED <<nUpdates, nRipples, acceptedLog, injectedLog, waveRead>>

\* The CPU branch of addRipple.
CPUAddRippleStep(x, z, strength) ==
    /\ ripples' = PushRipple(ripples, x, z, strength)
    /\ acceptedLog' = acceptedLog \o SubSeq(ripples', Len(ripples) + 1, Len(ripples'))
    /\ UNCHANGED <<buffers, heightCurrent, heightPrevious, heightNext, textureData>>

\* addRipple(x, z, strength).
AddRippleCall(x, z, strength) ==
    /\ IF Delegates
       THEN /\ GPUAddRippleStep(x, z, strength)
            /\ UNCHANGED <<ripples, buffers, heightCurrent, heightPrevious,
                           heightNext, textureData>>
       ELSE /\ CPUAddRippleStep(x, z, strength)
            /\ UNCHANGED gpuVars
    /\ nRipples' = nRipples + 1
    /\ lastCall' = [op |-> "addRipple", x |-> x, z |-> z, strength |-> strength]
    /\ UNCHANGED <<constructed, resolution, preferGPU, useGPU, gpuSimulation,
                   waveSpeed, damping, edgeFadeWidth, edgeFadeStrength,
                   heightTexture>>
    /\ UNCHANGED <<nUpdates, injectedLog, waveRead>>

\* The grid the wave loop of update() reads as heightCurrent.
InjectedGrid == InjectAll(buffers[heightCurrent], ripples, resolution)

\* Mutant: the wave loop runs on the grid as it was before the injection.
WaveInput_BeforeInjection == buffers[heightCurrent]

\* The grid the wave loop reads: heightCurrent, after the injection loop.
WaveInput == InjectedGrid

\* Mutant: the pending queue is left as it is.
ClearedQueue_Kept == ripples

\* this.ripples = [] after the injection loop.
ClearedQueue == <<>>

\* Mutant: the rotation is done without the temporary, so that heightNext
\* ends up as the array heightPrevious has become.
RotatedNext_NoTemp == heightCurrent

\* const temp = this.heightPrevious; ...; this.heightNext = temp
RotatedNext == heightPrevious

\* The CPU branch of update: injection, wave loop, buffer rotation, texture
\* write.
CPUUpdateStep ==
    /\ LET injected == InjectedGrid
           next == WaveStep(WaveInput, buffers[heightPrevious], buffers[heightNext],
                            resolution, waveSpeed, damping,
                            edgeFadeWidth, edgeFadeStrength)
       IN /\ buffers' = [buffers EXCEPT ![heightCurrent] = injected,
                                        ![heightNext] = next]
          /\ textureData' = WriteTexture(next, resolution)
          /\ waveRead' = WaveInput
    /\ injectedLog' = injectedLog \o ripples
    /\ ripples' = ClearedQueue
    /\ heightPrevious' = heightCurrent
    /\ heightCurrent' = heightNext
    /\ heightNext' = RotatedNext

\* update(renderer).
UpdateCall ==
    /\ IF Delegates
       THEN /\ GPUUpdateStep
            /\ UNCHANGED <<ripples, buffers, heightCurrent, heightPrevious,
                           heightNext, textureData>>
       ELSE /\ CPUUpdateStep
            /\ UNCHANGED gpuVars
    /\ nUpdates' = nUpdates + 1
    /\ lastCall' = [op |-> "update"]
    /\ UNCHANGED <<constructed, resolution, preferGPU, useGPU, gpuSimulation,
                   waveSpeed, damping, edgeFadeWidth, edgeFadeStrength,
                   heightTexture>>
    /\ UNCHANGED <<nRipples, acceptedLog>>

\* getHeightTexture(): the GPU simulation's texture, or the data texture.
getHeightTexture ==
    IF Delegates THEN GPUgetHeightTexture ELSE heightTexture

\* getHeightData(): null in GPU mode, else the heightCurrent array itself.
getHeightData == IF useGPU THEN 0 ELSE heightCurrent

\* isGPUMode()
isGPUMode == useGPU

\* ----------------------------------------- a caller of RippleSimulation
\* Callers await init() before any other call.
SimInit(gpuSupported, gpuConstructs) ==
    /\ constructed = "RippleSimulation"
    /\ heightTexture = 0
    /\ InitCall(gpuSupported, gpuConstructs)
    /\ UNCHANGED appVars

AddRipple(x, z, strength) ==
    /\ constructed = "RippleSimulation"
    /\ heightTexture # 0
    /\ nRipples < MaxRipples
    /\ AddRippleCall(x, z, strength)
    /\ UNCHANGED appVars

Update ==
    /\ constructed = "RippleSimulation"
    /\ heightTexture # 0
    /\ nUpdates < MaxUpdates
    /\ UpdateCall
    /\ UNCHANGED appVars

\* -------------------------------------- a caller of GPURippleSimulation
GPUAddRipple(x, z, strength) ==
    /\ constructed = "GPURippleSimulation"
    /\ nRipples < MaxRipples
    /\ GPUAddRippleStep(x, z, strength)
    /\ nRipples' = nRipples + 1
    /\ lastCall' = [op |-> "addRipple", x |-> x, z |-> z, strength |-> strength]
    /\ UNCHANGED <<constructed, simVars, appVars>>
    /\ UNCHANGED <<nUpdates, injectedLog, waveRead>>

GPUUpdate ==
    /\ constructed = "GPURippleSimulation"
    /\ nUpdates < MaxUpdates
    /\ GPUUpdateStep
    /\ nUpdates' = nUpdates + 1
    /\ lastCall' = [op |-> "update"]
    /\ UNCHANGED <<constructed, simVars, appVars>>
    /\ UNCHANGED <<nRipples, acceptedLog>>

\* ------------------------------------------------------- RaindropSystem
\* Frame times clock.getDelta() returns, in thousandths of a second.
Deltas == { Scale \div 2, Scale }

\* The five Math.random() values one spawnParticle() call draws, in
\* thousandths.
RandomDraws ==
    { [x |-> rx, y |-> Scale \div 2, z |-> rz, vx |-> Scale \div 2, vz |-> Scale \div 2] :
        rx \in {0, Scale \div 2}, rz \in {Scale \div 2} }

\* State after new RaindropSystem(renderer, options) and init(): every
\* particle inactive below the water.  spawned and landed count, for every
\* slot, the particles spawned in it and the impacts recorded for it.
RaindropsCreated ==
    [spawnTimer |-> 0,
     spawned |-> [i \in 0 .. (MaxParticles - 1) |-> 0],
     landed |-> [i \in 0 .. (MaxParticles - 1) |-> 0],
     impacts |-> <<>>,
     positions |-> [i \in 0 .. (MaxParticles - 1) |-> [x |-> 0, y |-> -100 * Scale, z |-> 0]],
     velocities |-> [i \in 0 .. (MaxParticles - 1) |-> [x |-> 0, y |-> 0, z |-> 0]],
     lifetimes |-> [i \in 0 .. (MaxParticles - 1) |-> -Scale],
     nextParticleIndex |-> 0]

\* 1.0 / this.spawnRate
spawnInterval == Scale \div spawnRate

\* spawnParticle() with the random values d.
spawnParticle(rs, d) ==
    LET i == rs.nextParticleIndex
    IN [rs EXCEPT
          !.positions[i] = [x |-> (d.x - Scale \div 2) * spawnAreaX,
                            y |-> spawnHeight * Scale + d.y * 2,
                            z |-> (d.z - Scale \div 2) * spawnAreaZ],
          !.velocities[i] = [x |-> RoundDiv(d.vx - Scale \div 2, 2),
                             y |-> -2 * Scale,
                             z |-> RoundDiv(d.vz - Scale \div 2, 2)],
          !.lifetimes[i] = Scale,
          !.spawned[i] = @ + 1,
          !.nextParticleIndex = (i + 1) % MaxParticles]

\* Iterations of the loop while (this.spawnTimer >= spawnInterval).
SpawnCount(timer) == timer \div spawnInterval

\* The spawn loop: one spawnParticle() per interval in the timer.
RECURSIVE SpawnLoop(_, _)
SpawnLoop(rs, draws) ==
    IF rs.spawnTimer >= spawnInterval /\ draws # <<>>
    THEN SpawnLoop([spawnParticle(rs, Head(draws))
                       EXCEPT !.spawnTimer = @ - spawnInterval], Tail(draws))
    ELSE rs

\* Mutant: a particle that has hit the water keeps its lifetime.
Deactivated_Kept(lifetime) == lifetime

\* this.lifetimes[i] = -1
Deactivated(lifetime) == -Scale

\* The particle loop from slot i on: gravity, movement, collision with the
\* water plane y = 0, lifetime decay.
RECURSIVE UpdateParticles(_, _, _)
UpdateParticles(rs, delta, i) ==
    IF i >= MaxParticles THEN rs
    ELSE IF rs.lifetimes[i] <= 0 THEN UpdateParticles(rs, delta, i + 1)
    ELSE LET v == rs.velocities[i]
             p == rs.positions[i]
             vy == v.y + gravity * delta
             moved == [x |-> p.x + Mul(v.x, delta),
                       y |-> p.y + Mul(vy, delta),
                       z |-> p.z + Mul(v.z, delta)]
             hit == moved.y <= 0
             impact == [x |-> moved.x, z |-> moved.z,
                        strength |-> Min2(Mul(Abs(vy), 30), 800)]
         IN UpdateParticles(
              [rs EXCEPT
                 !.velocities[i] = [v EXCEPT !.y = vy],
                 !.positions[i] = IF hit THEN [moved EXCEPT !.y = -100 * Scale]
                                  ELSE moved,
                 !.impacts = IF hit THEN Append(@, impact) ELSE @,
                 !.landed[i] = IF hit THEN @ + 1 ELSE @,
                 !.lifetimes[i] = (IF hit THEN Deactivated(@) ELSE @) - Mul(delta, 100)],
              delta, i + 1)

\* RaindropSystem.update(delta, time); its return value is the impacts field.
RaindropUpdate(rs, delta, draws) ==
    UpdateParticles(
        SpawnLoop([rs EXCEPT !.impacts = <<>>, !.spawnTimer = @ + delta], draws),
        delta, 0)

\* Frame times handed to update() when the raindrops run alone.
RainDeltas == { Scale \div 4, Scale \div 2, Scale }

\* Only a RaindropSystem exists.
InitRain ==
    /\ constructed = "RaindropSystem"
    /\ Absent
    /\ GPUAbsent
    /\ pc = "none"
    /\ tick = 0
    /\ impacts = <<>>
    /\ impactIndex = 0
    /\ raindrops = RaindropsCreated
    /\ lakePositions = <<>>
    /\ reads = <<>>
    /\ causticsRenderer = "null"
    /\ audioSystem = "null"
    /\ HistInit

\* impacts = raindrops.update(delta, time)
RainUpdate(delta) ==
    /\ constructed = "RaindropSystem"
    /\ tick < MaxRainTicks
    /\ \E draws \in [1 .. SpawnCount(raindrops.spawnTimer + delta) -> RandomDraws] :
          raindrops' = RaindropUpdate(raindrops, delta, draws)
    /\ tick' = tick + 1
    /\ impacts' = raindrops'.impacts
    /\ lastCall' = [op |-> "raindropsUpdate", delta |-> delta]
    /\ UNCHANGED <<constructed, simVars, gpuVars, pc, impactIndex, lakePositions,
                   reads, causticsRenderer, audioSystem>>
    /\ UNCHANGED <<nUpdates, nRipples, acceptedLog, injectedLog, waveRead>>

NextRain == \E delta \in RainDeltas : RainUpdate(delta)

SpecRain == InitRain /\ [][NextRain]_vars

\* ---------------------------------------------------------- LakeSurface
\* The height-field cell the mesh vertex (i, j) is mapped to.
LakeCell(i, j, res, segments) ==
    [hx |-> (j * (res - 1)) \div segments, hy |-> (i * (res - 1)) \div segments]

\* Mutant: the lake normal's x is the right minus the left height.
LakeNormalX_RightMinusLeft(hL, hR) == (hR - hL) * 2

\* nx = (hL - hR) * 2
LakeNormalX(hL, hR) == (hL - hR) * 2

\* LakeSurface.update(): the z and the unit normal of every vertex of the
\* (segments + 1)^2 mesh from the simulation's heightCurrent array.
LakeUpdate(heightData, res, segments) ==
    [vertexIndex \in 0 .. ((segments + 1) * (segments + 1) - 1) |->
        LET c == LakeCell(vertexIndex \div (segments + 1),
                          vertexIndex % (segments + 1), res, segments)
            hx == c.hx
            hy == c.hy
            hL == heightData[hy * res + (IF hx - 1 > 0 THEN hx - 1 ELSE 0)]
            hR == heightData[hy * res + Min2(res - 1, hx + 1)]
            hU == heightData[(IF hy - 1 > 0 THEN hy - 1 ELSE 0) * res + hx]
            hD == heightData[Min2(res - 1, hy + 1) * res + hx]
            nx == LakeNormalX(hL, hR)
            ny == (hU - hD) * 2
            len == Sqrt(nx * nx + ny * ny + Scale * Scale)
        IN [z |-> Mul(heightData[hy * res + hx], Scale \div 2),
            nx |-> RoundDiv(nx * Scale, len),
            ny |-> RoundDiv(ny * Scale, len),
            nz |-> RoundDiv(Scale * Scale, len)]]

\* ------------------------------------------------------------------ App
\* No App exists.
AppAbsent ==
    /\ pc = "none"
    /\ tick = 0
    /\ impacts = <<>>
    /\ impactIndex = 0
    /\ raindrops = <<>>
    /\ lakePositions = <<>>
    /\ reads = <<>>
    /\ causticsRenderer = "null"
    /\ audioSystem = "null"

\* The caller constructs either simulation class with resolution Res, or the
\* page constructs the App, whose init() constructs the RippleSimulation.
Init ==
    /\ \/ /\ constructed = "RippleSimulation"
          /\ \E prefer \in BOOLEAN : Constructed(Res, prefer)
          /\ GPUAbsent
       \/ /\ constructed = "GPURippleSimulation"
          /\ Absent
          /\ GPUConstructed(Res)
       \/ /\ constructed = "App"
          /\ Constructed(Res, TRUE)
          /\ GPUAbsent
    /\ AppAbsent
    /\ HistInit

\* A consumer reads the simulation during frame tick, after nUpdates updates.
Read(consumer) ==
    [consumer |-> consumer, tick |-> tick, updates |-> nUpdates,
     texture |-> getHeightTexture, heights |-> getHeightData]

\* App.init(): initialises the simulation, creates the lake mesh on a grid of
\* as many segments as the simulation has cells per side, creates the
\* raindrop system and starts the animation loop.
AppInit(gpuSupported, gpuConstructs) ==
    /\ constructed = "App"
    /\ pc = "none"
    /\ InitCall(gpuSupported, gpuConstructs)
    /\ raindrops' = RaindropsCreated
    /\ lakePositions' = LakeUpdate(buffers[heightCurrent], resolution, resolution)
    /\ pc' = "raindrops"
    /\ UNCHANGED <<tick, impacts, impactIndex, reads,
                   causticsRenderer, audioSystem>>

\* animate(): a frame begins; raindrops.update(delta, time), each
\* spawnParticle() call of it with its own random values.
AnimateRaindrops(delta) ==
    /\ pc = "raindrops"
    /\ tick < MaxTicks
    /\ \E draws \in [1 .. SpawnCount(raindrops.spawnTimer + delta) -> RandomDraws] :
          raindrops' = RaindropUpdate(raindrops, delta, draws)
    /\ tick' = tick + 1
    /\ impacts' = raindrops'.impacts
    /\ impactIndex' = 1
    /\ pc' = "addRipple"
    /\ UNCHANGED <<constructed, simVars, gpuVars, histVars, lakePositions, reads,
                   causticsRenderer, audioSystem>>

\* animate(): one iteration of for (const impact of impacts) addRipple(...).
AnimateAddRipple ==
    /\ pc = "addRipple"
    /\ impactIndex <= Len(impacts)
    /\ AddRippleCall(impacts[impactIndex].x, impacts[impactIndex].z,
                     impacts[impactIndex].strength)
    /\ impactIndex' = impactIndex + 1
    /\ UNCHANGED <<pc, tick, impacts, raindrops, lakePositions, reads,
                   causticsRenderer, audioSystem>>

\* animate(): the impact loop ends; audioSystem.processImpacts(impacts).
AnimateAudio ==
    /\ pc = "addRipple"
    /\ impactIndex > Len(impacts)
    /\ pc' = "simUpdate"
    /\ UNCHANGED <<constructed, simVars, gpuVars, histVars, tick, impacts,
                   impactIndex, raindrops, lakePositions, reads,
                   causticsRenderer, audioSystem>>

\* animate(): rippleSimulation.update(renderer).
AnimateSimUpdate ==
    /\ pc = "simUpdate"
    /\ UpdateCall
    /\ pc' = "caustics"
    /\ UNCHANGED <<tick, impacts, impactIndex, raindrops, lakePositions, reads,
                   causticsRenderer, audioSystem>>

\* animate(): the caustics renderer, which exists in GPU mode only, reads
\* the height texture.
AnimateCaustics ==
    /\ pc = "caustics"
    /\ reads' = IF isGPUMode THEN Append(reads, Read("caustics")) ELSE reads
    /\ pc' = "lake"
    /\ UNCHANGED <<constructed, simVars, gpuVars, histVars, tick, impacts,
                   impactIndex, raindrops, lakePositions,
                   causticsRenderer, audioSystem>>

\* animate(): lake.update(time) reads rippleSimulation.heightCurrent.
AnimateLake ==
    /\ pc = "lake"
    /\ lakePositions' = LakeUpdate(buffers[heightCurrent], resolution, resolution)
    /\ reads' = Append(reads, Read("lake"))
    /\ pc' = "render"
    /\ UNCHANGED <<constructed, simVars, gpuVars, histVars, tick, impacts,
                   impactIndex, raindrops,
                   causticsRenderer, audioSystem>>

\* animate(): floor.update(time), then renderer.render(scene, camera) draws
\* the lake mesh; the next frame follows.
AnimateRender ==
    /\ pc = "render"
    /\ reads' = Append(reads, Read("render"))
    /\ pc' = "raindrops"
    /\ UNCHANGED <<constructed, simVars, gpuVars, histVars, tick, impacts,
                   impactIndex, raindrops, lakePositions,
                   causticsRenderer, audioSystem>>

Next ==
    \/ \E s, c \in BOOLEAN : SimInit(s, c)
    \/ \E p \in WorldPoints, s \in Strengths : AddRipple(p[1], p[2], s)
    \/ Update
    \/ \E p \in WorldPoints, s \in Strengths : GPUAddRipple(p[1], p[2], s)
    \/ GPUUpdate
    \/ \E s, c \in BOOLEAN : AppInit(s, c)
    \/ \E delta \in Deltas : AnimateRaindrops(delta)
    \/ AnimateAddRipple
    \/ AnimateAudio
    \/ AnimateSimUpdate
    \/ AnimateCaustics
    \/ AnimateLake
    \/ AnimateRender

Spec == Init /\ [][Next]_vars

\* ------------------------------------------- a configured CPU simulation
\* The configuration and the impact of the 16 x 16 single-impact scenario.
Scenario ==
    [resolution |-> 16, waveSpeed |-> 300, damping |-> 990, edgeFadeWidth |-> 0,
     x |-> 0, z |-> 0, strength |-> Scale]

ScenarioDampings == {dampingDefault, Scenario.damping}
ScenarioFadeWidths == {edgeFadeWidthDefault, Scenario.edgeFadeWidth}
ScenarioPoints == { <<x * Scale, z * Scale>> : x \in {-5, 0, 5}, z \in {-5, 0, 5} }
ScenarioStrengths == { Scale \div 2, Scale }

InitScenario ==
    /\ constructed = "RippleSimulation"
    /\ Constructed(Scenario.resolution, FALSE)
    /\ GPUAbsent
    /\ AppAbsent
    /\ HistInit

\* The caller sets the public fields waveSpeed, damping and edgeFadeWidth
\* of a freshly initialised simulation.
Configure(ws, damp, fadeWidth) ==
    /\ lastCall.op = "init"
    /\ waveSpeed' = ws
    /\ damping' = damp
    /\ edgeFadeWidth' = fadeWidth
    /\ lastCall' = [op |-> "configure"]
    /\ UNCHANGED <<constructed, resolution, preferGPU, useGPU, gpuSimulation, ripples,
                   edgeFadeStrength, buffers, heightCurrent, heightPrevious,
                   heightNext, heightTexture, textureData>>
    /\ UNCHANGED <<gpuVars, appVars, nUpdates, nRipples, acceptedLog, injectedLog,
                   waveRead>>

\* One impact on the flat field, then one update.
NextScenario ==
    \/ SimInit(FALSE, FALSE)
    \/ \E d \in ScenarioDampings, w \in ScenarioFadeWidths :
          Configure(Scenario.waveSpeed, d, w)
    \/ \E p \in ScenarioPoints, s \in ScenarioStrengths :
          nRipples = 0 /\ nUpdates = 0 /\ AddRipple(p[1], p[2], s)
    \/ nRipples = 1 /\ nUpdates = 0 /\ Update

SpecScenario == InitScenario /\ [][NextScenario]_vars

\* ------------------------------------------------ the edge absorption
\* A grid with cells at distance 1, 2 and 3 from the nearest edge, fade
\* widths below, at and above those distances, and strengths from 0 to 1.
AbsorptionResolution == Res + 2
AbsorptionFadeWidths == {0, 2, 3, edgeFadeWidthDefault}
AbsorptionFadeStrengths == {0, Scale \div 2, edgeFadeStrengthDefault, Scale}

InitAbsorption ==
    /\ constructed = "RippleSimulation"
    /\ Constructed(AbsorptionResolution, FALSE)
    /\ GPUAbsent
    /\ AppAbsent
    /\ HistInit

\* The caller sets the public fields edgeFadeWidth and edgeFadeStrength of
\* a freshly initialised simulation.
ConfigureEdge(fadeWidth, fadeStrength) ==
    /\ lastCall.op = "init"
    /\ edgeFadeWidth' = fadeWidth
    /\ edgeFadeStrength' = fadeStrength
    /\ lastCall' = [op |-> "configure"]
    /\ UNCHANGED <<constructed, resolution, preferGPU, useGPU, gpuSimulation, ripples,
                   waveSpeed, damping, buffers, heightCurrent, heightPrevious,
                   heightNext, heightTexture, textureData>>
    /\ UNCHANGED <<gpuVars, appVars, nUpdates, nRipples, acceptedLog, injectedLog,
                   waveRead>>

\* init(), an optional configuration, one impact at the centre, updates.
NextAbsorption ==
    \/ SimInit(FALSE, FALSE)
    \/ \E w \in AbsorptionFadeWidths, s \in AbsorptionFadeStrengths :
          ConfigureEdge(w, s)
    \/ \E s \in ScenarioStrengths : nRipples = 0 /\ AddRipple(0, 0, s)
    \/ nRipples = 1 /\ Update

SpecAbsorption == InitAbsorption /\ [][NextAbsorption]_vars

\* ------------------------------------------- the caustics compute node
\* clamp(v, lo, hi)
Clamp(v, lo, hi) == IF v < lo THEN lo ELSE IF v > hi THEN hi ELSE v

\* The texel the node stores for a cell of a height texture all of whose
\* texels are equal to texel, so that every sample of it, at any coordinate
\* and under any filter or wrapping, is that texel: h1..h4 are the .b
\* channel of the four neighbouring samples, the laplacian subtracts four
\* times the .r channel of the centre sample.  The refracted ray and the
\* curvature the node also computes do not reach its output.
CausticsTexel(texel, intensity) ==
    LET h1 == texel.b
        h2 == texel.b
        h3 == texel.b
        h4 == texel.b
        laplacian == h1 + h2 + h3 + h4 - texel.r * 4
        focusFactor == laplacian * 50
        causticValue == Mul(3 * (Scale \div 10) + focusFactor, intensity)
        finalIntensity == Clamp(causticValue, 0, 2 * Scale)
        warmth == RoundDiv(finalIntensity, 10)
    IN [r |-> finalIntensity + warmth, g |-> finalIntensity,
        b |-> finalIntensity - RoundDiv(warmth, 2), a |-> Scale]

\* Heights and normal components of the uniform height textures, and the
\* intensities, in thousandths.
KernelHeights == {-10, -2, -1, 0, 1, 2, 10}
KernelNormals == {0, 1}
KernelIntensities == {0, 6 * (Scale \div 10), 9 * (Scale \div 10), 3 * Scale, 8 * Scale}

\* A compute node built for a uniform height texture, not yet dispatched.
InitKernel ==
    /\ constructed = "CausticsRenderer.computeNode"
    /\ Absent
    /\ GPUAbsent
    /\ pc = "none"
    /\ tick = 0
    /\ impacts = <<>>
    /\ impactIndex = 0
    /\ raindrops = <<>>
    /\ lakePositions = <<>>
    /\ reads = <<>>
    /\ \E h \in KernelHeights, n \in KernelNormals, i \in KernelIntensities :
          causticsRenderer =
             [intensity |-> i,
              heightTexel |-> [r |-> h, g |-> 0, b |-> n, a |-> n],
              dispatched |-> FALSE,
              output |-> ZeroTexel]
    /\ audioSystem = "null"
    /\ HistInit

\* renderer.compute(this.computeNode): every cell of the caustics texture
\* receives the texel the node computes.
KernelDispatch ==
    /\ constructed = "CausticsRenderer.computeNode"
    /\ ~causticsRenderer.dispatched
    /\ causticsRenderer' =
          [causticsRenderer EXCEPT
              !.dispatched = TRUE,
              !.output = CausticsTexel(causticsRenderer.heightTexel,
                                       causticsRenderer.intensity)]
    /\ lastCall' = [op |-> "compute"]
    /\ UNCHANGED <<constructed, simVars, gpuVars, pc, tick, impacts, impactIndex,
                   raindrops, lakePositions, reads, audioSystem>>
    /\ UNCHANGED <<nUpdates, nRipples, acceptedLog, injectedLog, waveRead>>

NextKernel == KernelDispatch

SpecKernel == InitKernel /\ [][NextKernel]_vars

\* ---------------------------------------------------------- AudioSystem
\* State after new AudioSystem(), with the clock both performance.now() (in
\* milliseconds) and audioContext.currentTime (in thousandths of a second)
\* are read from, and a record of the notes started: the times of the last
\* two, how many the last call started and how many audio nodes it created.
AudioCreated ==
    [isInitialized |-> FALSE, isEnabled |-> FALSE, useFallback |-> FALSE,
     faustNode |-> "null", decayTime |-> decayTimeDefault, lastNoteTime |-> 0,
     activeVoices |-> <<>>,
     now |-> 0,
     lastStart |-> -1, prevStart |-> -1, startedInCall |-> 0, nodesCreated |-> 0,
     decayChanges |-> 0]

\* A note starts at the current time, creating n audio nodes.
NoteStarted(as, n) ==
    [as EXCEPT !.prevStart = as.lastStart, !.lastStart = as.now,
               !.startedInCall = @ + 1, !.nodesCreated = @ + n]

\* A call begins: nothing started, nothing created yet.
CallBegins(as) == [as EXCEPT !.startedInCall = 0, !.nodesCreated = 0]

\* init(): returns at once when initialised; fails when the audio context
\* cannot be created; else loads the FAUST module or falls back.
AudioInitOf(as, contextOk, faustLoads) ==
    IF as.isInitialized \/ ~contextOk THEN as
    ELSE [as EXCEPT !.isInitialized = TRUE,
                    !.faustNode = IF faustLoads THEN "faust" ELSE @,
                    !.useFallback = IF faustLoads THEN @ ELSE TRUE]

\* Mutant: more voices than maxVoices are needed to refuse a note.
PolyphonyFull_OffByOne(n) == n > maxVoices

\* this.activeVoices.length >= this.maxVoices
PolyphonyFull(n) == n >= maxVoices

\* The voices whose endTime is after t.
LiveVoices(voices, t) == SelectSeq(voices, LAMBDA endTime : endTime > t)

\* triggerFallbackNote(noteParams): expired voices are dropped; at full
\* polyphony nothing more happens; else a panner, a gain, a filter and six
\* oscillators with their gains are created and the voice is tracked until
\* now + decayTime + 0.2.
triggerFallbackNoteOf(as) ==
    LET live == LiveVoices(as.activeVoices, as.now)
    IN IF PolyphonyFull(Len(live))
       THEN [as EXCEPT !.activeVoices = live]
       ELSE NoteStarted([as EXCEPT !.activeVoices =
                            Append(live, as.now + as.decayTime + 2 * (Scale \div 10))],
                        15)

\* triggerFaustNote(noteParams): keyOn unless there is no FAUST node.
triggerFaustNoteOf(as) ==
    IF as.faustNode = "null" THEN as ELSE NoteStarted(as, 0)

\* Mutant: no note is ever throttled.
Throttled_Never(now, lastNoteTime) == FALSE

\* now - this.lastNoteTime < this.minTimeBetweenNotes
Throttled(now, lastNoteTime) == now - lastNoteTime < minTimeBetweenNotes

\* triggerNote(x, z, strength)
triggerNoteOf(as) ==
    IF ~as.isEnabled \/ ~as.isInitialized THEN as
    ELSE IF Throttled(as.now, as.lastNoteTime) THEN as
    ELSE LET passed == [as EXCEPT !.lastNoteTime = as.now]
         IN IF as.useFallback THEN triggerFallbackNoteOf(passed)
            ELSE triggerFaustNoteOf(passed)

\* The loop of processImpacts over the impacts, the clock advancing by
\* elapsed[k] before the k-th triggerNote reads it.
RECURSIVE TriggerEach(_, _)
TriggerEach(as, elapsed) ==
    IF elapsed = <<>> THEN as
    ELSE TriggerEach(triggerNoteOf([as EXCEPT !.now = @ + Head(elapsed)]),
                     Tail(elapsed))

\* processImpacts(impacts)
processImpactsOf(as, elapsed) ==
    IF ~as.isEnabled \/ Len(elapsed) = 0 THEN as ELSE TriggerEach(as, elapsed)

\* Time that passes between two calls, and between two clock reads inside
\* one processImpacts() loop, in milliseconds.
ClockSteps == {20, 30}
LoopSteps == {0, 1}
\* Time that passes between two fallback notes, in milliseconds.
VoiceClockSteps == { Scale }
\* Arguments of setDecayTime, in thousandths of a second.
DecayTimes == { Scale \div 2, decayTimeDefault }

\* Only an AudioSystem exists.
AudioOnly(as) ==
    /\ constructed = "AudioSystem"
    /\ Absent
    /\ GPUAbsent
    /\ pc = "none"
    /\ tick = 0
    /\ impacts = <<>>
    /\ impactIndex = 0
    /\ raindrops = <<>>
    /\ lakePositions = <<>>
    /\ reads = <<>>
    /\ causticsRenderer = "null"
    /\ audioSystem = as
    /\ HistInit

\* A call of an AudioSystem method, or the passing of time, that leaves the
\* audio system as next.
AudioCall(call, next) ==
    /\ constructed = "AudioSystem"
    /\ audioSystem' = next
    /\ lastCall' = call
    /\ UNCHANGED <<constructed, simVars, gpuVars, pc, tick, impacts, impactIndex,
                   raindrops, lakePositions, reads, causticsRenderer>>
    /\ UNCHANGED <<nUpdates, nRipples, acceptedLog, injectedLog, waveRead>>

AudioInit(contextOk, faustLoads) ==
    AudioCall([op |-> "audioInit"], AudioInitOf(audioSystem, contextOk, faustLoads))

setEnabled(enabled) ==
    AudioCall([op |-> "setEnabled"], [audioSystem EXCEPT !.isEnabled = enabled])

ClockAdvances(d, max) ==
    /\ audioSystem.now + d <= max
    /\ AudioCall([op |-> "clock"], [audioSystem EXCEPT !.now = @ + d])

triggerNote ==
    /\ audioSystem.now + 1 <= MaxClock
    /\ AudioCall([op |-> "triggerNote"], triggerNoteOf(CallBegins(audioSystem)))

processImpacts(elapsed) ==
    /\ audioSystem.now + Len(elapsed) <= MaxClock
    /\ AudioCall([op |-> "processImpacts", n |-> Len(elapsed)],
                 processImpactsOf(CallBegins(audioSystem), elapsed))

InitAudio == AudioOnly(AudioCreated)

NextAudio ==
    \/ \E contextOk, faustLoads \in BOOLEAN : AudioInit(contextOk, faustLoads)
    \/ \E enabled \in BOOLEAN : setEnabled(enabled)
    \/ \E d \in ClockSteps : ClockAdvances(d, MaxClock)
    \/ triggerNote
    \/ \E n \in 0 .. MaxImpacts : \E elapsed \in [1 .. n -> LoopSteps] :
          processImpacts(elapsed)

SpecAudio == InitAudio /\ [][NextAudio]_vars

\* ---------------------------------------------------- the fallback voices
\* An initialised, enabled AudioSystem whose FAUST module failed to load.
InitVoices ==
    AudioOnly([AudioCreated EXCEPT !.isInitialized = TRUE, !.isEnabled = TRUE,
                                   !.useFallback = TRUE])

triggerFallbackNote ==
    AudioCall([op |-> "triggerFallbackNote"],
              triggerFallbackNoteOf(CallBegins(audioSystem)))

setDecayTime(seconds) ==
    /\ audioSystem.decayChanges < MaxDecayChanges
    /\ AudioCall([op |-> "setDecayTime"],
                 [audioSystem EXCEPT !.decayTime = seconds, !.decayChanges = @ + 1])

NextVoices ==
    \/ triggerFallbackNote
    \/ \E seconds \in DecayTimes : setDecayTime(seconds)
    \/ \E d \in VoiceClockSteps : ClockAdvances(d, MaxVoiceClock)

SpecVoices == InitVoices /\ [][NextVoices]_vars

\* ------------------------------------------------- the audio life cycle
\* init() is an async function: it runs up to an await, and whatever else is
\* ready (another init(), dispose(), triggerNote()) runs before it resumes.
\* A call of init() is at pc "idle" (not yet made), "resuming" (awaiting
\* audioContext.resume()), "importing" (awaiting import() in
\* loadFaustModule), "creating" (awaiting createFaustNode) or "done"; ctx is
\* the context it handed to createFaustNode, returned its return value and
\* faust what became of its FAUST loading.
IdleCall == [pc |-> "idle", ctx |-> 0, returned |-> "none", faust |-> "none"]

\* new AudioSystem(): audioContext and masterGainNode are null (0; k stands
\* for the k-th object created), with counts of the objects created so far,
\* the init() calls, what the last completed initialisation did with FAUST,
\* and whether the last triggerNote threw.
LifeCreated ==
    AudioCreated @@
    [audioContext |-> 0, masterGainNode |-> 0,
     contextsCreated |-> 0, gainsCreated |-> 0, faustCreated |-> 0,
     calls |-> [i \in 1 .. MaxInitCalls |-> IdleCall],
     lastFaust |-> "none", disposals |-> 0, threw |-> FALSE]

\* return value from init() call i
InitReturns(as, i, value) ==
    [as EXCEPT !.calls[i].pc = "done", !.calls[i].returned = value]

\* Mutant: a failed FAUST load does not switch to the fallback synth.
FaustFailed_NoFallback(as, i) ==
    InitReturns([as EXCEPT !.isInitialized = TRUE,
                           !.lastFaust = "failed", !.calls[i].faust = "failed"],
                i, "true")

\* catch (faustError): useFallback = true; then isInitialized = true and
\* return true.
FaustFailed(as, i) ==
    InitReturns([as EXCEPT !.useFallback = TRUE, !.isInitialized = TRUE,
                           !.lastFaust = "failed", !.calls[i].faust = "failed"],
                i, "true")

\* createGain() on this.audioContext, connect, then loadFaustModule() up to
\* its import(); a null audioContext makes createGain throw and init()
\* return false.
MasterGainCreated(as, i) ==
    IF as.audioContext = 0 THEN InitReturns(as, i, "false")
    ELSE [as EXCEPT !.masterGainNode = as.gainsCreated + 1,
                    !.gainsCreated = @ + 1,
                    !.calls[i].pc = "importing"]

\* init() from its first line to its first await.
InitStartOf(as, i, contextOk, suspended) ==
    IF as.isInitialized THEN InitReturns(as, i, "true")
    ELSE IF ~contextOk THEN InitReturns(as, i, "false")
    ELSE LET made == [as EXCEPT !.audioContext = as.contextsCreated + 1,
                                !.contextsCreated = @ + 1]
         IN IF suspended THEN [made EXCEPT !.calls[i].pc = "resuming"]
            ELSE MasterGainCreated(made, i)

\* init() after await this.audioContext.resume()
InitResumedOf(as, i, resumed) ==
    IF ~resumed THEN InitReturns(as, i, "false") ELSE MasterGainCreated(as, i)

\* loadFaustModule() after await import(): createFaustNode is called with
\* the audio context of that moment.
InitImportedOf(as, i, imported) ==
    IF ~imported THEN FaustFailed(as, i)
    ELSE [as EXCEPT !.calls[i].pc = "creating", !.calls[i].ctx = as.audioContext]

\* loadFaustModule() after await createFaustNode(...), and the rest of
\* init(): no node without a context; connect(this.masterGainNode) throws
\* when the master gain node is null.
InitNodeCreatedOf(as, i, created) ==
    IF ~created \/ as.calls[i].ctx = 0 THEN FaustFailed(as, i)
    ELSE LET node == [as EXCEPT !.faustNode = "faust", !.faustCreated = @ + 1]
         IN IF as.masterGainNode = 0 THEN FaustFailed(node, i)
            ELSE InitReturns([node EXCEPT !.isInitialized = TRUE,
                                          !.lastFaust = "loaded",
                                          !.calls[i].faust = "loaded"],
                             i, "true")

\* dispose()
disposeOf(as) ==
    [as EXCEPT !.faustNode = "null", !.masterGainNode = 0, !.audioContext = 0,
               !.isInitialized = FALSE, !.activeVoices = <<>>,
               !.disposals = @ + 1]

\* triggerNote(x, z, strength) where audioContext or masterGainNode may be
\* null: the fallback then throws a TypeError, at audioContext.currentTime
\* or at panner.connect(this.masterGainNode), before any oscillator starts.
LifeTriggerNoteOf(as) ==
    IF /\ as.isEnabled /\ as.isInitialized
       /\ ~Throttled(as.now, as.lastNoteTime)
       /\ as.useFallback
       /\ (as.audioContext = 0 \/ as.masterGainNode = 0)
    THEN LET passed == [as EXCEPT !.lastNoteTime = as.now]
             live == LiveVoices(as.activeVoices, as.now)
         IN IF as.audioContext = 0 THEN [passed EXCEPT !.threw = TRUE]
            ELSE IF PolyphonyFull(Len(live)) THEN [passed EXCEPT !.activeVoices = live]
            ELSE [passed EXCEPT !.activeVoices = live, !.threw = TRUE,
                                !.nodesCreated = 1]
    ELSE triggerNoteOf(as)

InitStart(i, contextOk, suspended) ==
    /\ audioSystem.calls[i].pc = "idle"
    /\ \A j \in 1 .. i - 1 : audioSystem.calls[j].pc # "idle"
    /\ AudioCall([op |-> "initStart", call |-> i],
                 InitStartOf(audioSystem, i, contextOk, suspended))

InitResumed(i, resumed) ==
    /\ audioSystem.calls[i].pc = "resuming"
    /\ AudioCall([op |-> "initResumed", call |-> i],
                 InitResumedOf(audioSystem, i, resumed))

InitImported(i, imported) ==
    /\ audioSystem.calls[i].pc = "importing"
    /\ AudioCall([op |-> "initImported", call |-> i],
                 InitImportedOf(audioSystem, i, imported))

InitNodeCreated(i, created) ==
    /\ audioSystem.calls[i].pc = "creating"
    /\ AudioCall([op |-> "initNodeCreated", call |-> i],
                 InitNodeCreatedOf(audioSystem, i, created))

dispose ==
    /\ audioSystem.disposals < MaxDisposals
    /\ AudioCall([op |-> "dispose"], disposeOf(audioSystem))

LifeTriggerNote ==
    AudioCall([op |-> "triggerNote"],
              LifeTriggerNoteOf([CallBegins(audioSystem) EXCEPT !.threw = FALSE]))

InitLife == AudioOnly(LifeCreated)

NextLife ==
    \/ \E i \in 1 .. MaxInitCalls : \E contextOk, suspended \in BOOLEAN :
          InitStart(i, contextOk, suspended)
    \/ \E i \in 1 .. MaxInitCalls : \E resumed \in BOOLEAN : InitResumed(i, resumed)
    \/ \E i \in 1 .. MaxInitCalls : \E imported \in BOOLEAN : InitImported(i, imported)
    \/ \E i \in 1 .. MaxInitCalls : \E created \in BOOLEAN : InitNodeCreated(i, created)
    \/ dispose
    \/ \E enabled \in BOOLEAN : setEnabled(enabled)
    \/ ClockAdvances(minTimeBetweenNotes, MaxLifeClock)
    \/ LifeTriggerNote

SpecLife == InitLife /\ [][NextLife]_vars

\* ----------------------------------------------------- CausticsRenderer
\* Vector3.normalize(): the vector divided by its length (by 1 if that is 0).
Normalize(v) ==
    LET len == Sqrt(v.x * v.x + v.y * v.y + v.z * v.z)
        d == IF len = 0 THEN Scale ELSE len
    IN [x |-> RoundDiv(v.x * Scale, d), y |-> RoundDiv(v.y * Scale, d),
        z |-> RoundDiv(v.z * Scale, d)]

\* Arguments of the setters and of update(), in thousandths.
CausticsIntensities == { 9 * (Scale \div 10) }
CausticsDepths == { -Scale }
CausticsDirections == { [x |-> 0, y |-> -2 * Scale, z |-> 0] }
CausticsHeightTextures == { "null", "A" }

\* this.computeNode = null; also the content of a texture no node has written.
NoNode == [kind |-> "null"]

\* State after new CausticsRenderer(renderer): intensity 0.6, the light
\* (-0.3, -1, -0.2) normalised, depth 2, no height texture, no compute node.
CausticsCreated ==
    [intensity |-> 6 * (Scale \div 10),
     lightDirection |-> Normalize([x |-> -3 * (Scale \div 10), y |-> -Scale,
                                   z |-> -2 * (Scale \div 10)]),
     waterDepth |-> 2 * Scale,
     heightTexture |-> "null",
     computeNode |-> NoNode,
     causticsStorage |-> NoNode]

\* buildComputeNode(heightTex): the node holds the values the fields have
\* when it is built.
buildComputeNode(cr, heightTex) ==
    [cr EXCEPT !.computeNode =
        [kind |-> "compute", heightMap |-> heightTex, intensity |-> cr.intensity,
         waterDepth |-> cr.waterDepth, light |-> cr.lightDirection]]

\* if (this.heightTexture) this.buildComputeNode(this.heightTexture)
Rebuilt(cr) ==
    IF cr.heightTexture # "null" THEN buildComputeNode(cr, cr.heightTexture) ELSE cr

\* setHeightTexture(tex)
setHeightTextureOf(cr, tex) ==
    LET stored == [cr EXCEPT !.heightTexture = tex]
    IN IF tex # "null" THEN buildComputeNode(stored, tex) ELSE stored

\* update(renderer, heightTexture): attach a new texture, then dispatch the
\* node, whose output replaces the content of the caustics texture.
CausticsUpdateOf(cr, heightTex) ==
    LET attached == IF heightTex # "null" /\ heightTex # cr.heightTexture
                    THEN setHeightTextureOf(cr, heightTex) ELSE cr
    IN IF attached.computeNode.kind # "null"
       THEN [attached EXCEPT !.causticsStorage = attached.computeNode]
       ELSE attached

\* Only a CausticsRenderer exists.
InitCaustics ==
    /\ constructed = "CausticsRenderer"
    /\ Absent
    /\ GPUAbsent
    /\ pc = "none"
    /\ tick = 0
    /\ impacts = <<>>
    /\ impactIndex = 0
    /\ raindrops = <<>>
    /\ lakePositions = <<>>
    /\ reads = <<>>
    /\ causticsRenderer = CausticsCreated
    /\ audioSystem = "null"
    /\ HistInit

\* A call of a CausticsRenderer method that leaves the renderer as next.
CausticsCall(op, next) ==
    /\ constructed = "CausticsRenderer"
    /\ causticsRenderer' = next
    /\ lastCall' = [op |-> op]
    /\ UNCHANGED <<constructed, simVars, gpuVars, pc, tick, impacts, impactIndex,
                   raindrops, lakePositions, reads, audioSystem>>
    /\ UNCHANGED <<nUpdates, nRipples, acceptedLog, injectedLog, waveRead>>

setHeightTexture(tex) ==
    CausticsCall("setHeightTexture", setHeightTextureOf(causticsRenderer, tex))

setIntensity(intensity) ==
    CausticsCall("setIntensity",
                 Rebuilt([causticsRenderer EXCEPT !.intensity = intensity]))

setLightDirection(dir) ==
    CausticsCall("setLightDirection",
                 Rebuilt([causticsRenderer EXCEPT !.lightDirection = Normalize(dir)]))

setWaterDepth(depth) ==
    CausticsCall("setWaterDepth",
                 Rebuilt([causticsRenderer EXCEPT !.waterDepth = Abs(depth)]))

CausticsUpdate(heightTex) ==
    CausticsCall("causticsUpdate", CausticsUpdateOf(causticsRenderer, heightTex))

NextCaustics ==
    \/ \E tex \in CausticsHeightTextures : setHeightTexture(tex)
    \/ \E i \in CausticsIntensities \cup {CausticsCreated.intensity} : setIntensity(i)
    \/ \E d \in CausticsDirections \cup {CausticsCreated.lightDirection} :
          setLightDirection(d)
    \/ \E d \in CausticsDepths \cup {CausticsCreated.waterDepth} : setWaterDepth(d)
    \/ \E tex \in CausticsHeightTextures : CausticsUpdate(tex)

SpecCaustics == InitCaustics /\ [][NextCaustics]_vars

\* ------------------------------------------------- the constructor's argument
\* Values passed as resolution: negative, zero, and a small grid.
ConstructResolutions == {-2, 0, Res - 3}

\* No simulation object exists yet.
InitConstruct ==
    /\ constructed = "none"
    /\ Absent
    /\ GPUAbsent
    /\ AppAbsent
    /\ HistInit

\* new RippleSimulation(renderer, res, prefer): the fields are assigned and
\* the three arrays of res * res cells allocated, whatever res is.
New(res, prefer) ==
    /\ constructed = "none"
    /\ constructed' = "RippleSimulation"
    /\ resolution' = res
    /\ preferGPU' = prefer
    /\ useGPU' = FALSE
    /\ gpuSimulation' = "null"
    /\ ripples' = <<>>
    /\ waveSpeed' = waveSpeedDefault
    /\ damping' = dampingDefault
    /\ edgeFadeWidth' = edgeFadeWidthDefault
    /\ edgeFadeStrength' = edgeFadeStrengthDefault
    /\ buffers' = [b \in 1 .. 3 |-> Float32Array(res * res)]
    /\ heightCurrent' = 1
    /\ heightPrevious' = 2
    /\ heightNext' = 3
    /\ heightTexture' = 0
    /\ textureData' = <<>>
    /\ lastCall' = [op |-> "new"]
    /\ UNCHANGED <<gpuVars, appVars, nUpdates, nRipples, acceptedLog, injectedLog,
                   waveRead>>

NextConstruct ==
    \/ \E res \in ConstructResolutions, prefer \in BOOLEAN : New(res, prefer)
    \/ \E s, c \in BOOLEAN : SimInit(s, c)
    \/ \E p \in WorldPoints, s \in Strengths : AddRipple(p[1], p[2], s)
    \/ Update

SpecConstruct == InitConstruct /\ [][NextConstruct]_vars

\* ------------------------------- a single impact on grids of both parities
\* An even and an odd grid size.
SymmetryResolutions == {Res, Res + 1}
\* The lake's centre and a point off the centre.
SymmetryPoints == { <<0, 0>>, <<5 * Scale, 0>> }

InitSymmetry ==
    /\ constructed = "RippleSimulation"
    /\ \E res \in SymmetryResolutions : Constructed(res, FALSE)
    /\ GPUAbsent
    /\ AppAbsent
    /\ HistInit

\* init(), an optional configuration, at most one impact, updates.
NextSymmetry ==
    \/ SimInit(FALSE, FALSE)
    \/ \E d \in ScenarioDampings, w \in ScenarioFadeWidths :
          Configure(waveSpeedDefault, d, w)
    \/ \E p \in SymmetryPoints, s \in ScenarioStrengths :
          nRipples = 0 /\ AddRipple(p[1], p[2], s)
    \/ Update

SpecSymmetry == InitSymmetry /\ [][NextSymmetry]_vars

\* ------------------------------------ the normals of a given height field
\* Heights of the single nonzero cell of the field.
BumpHeights == { -(Scale \div 2), Scale \div 2, Scale }

\* A field that is amp at one cell and 0 elsewhere.
Bump(res, cell, amp) == [i \in Cells(res) |-> IF i = cell THEN amp ELSE 0]

\* An initialised CPU simulation whose heightCurrent holds a one-cell bump.
InitNormals ==
    /\ constructed = "RippleSimulation"
    /\ \E res \in SymmetryResolutions :
          /\ resolution = res
          /\ \E cell \in Cells(res), amp \in BumpHeights :
                buffers = [b \in 1 .. 3 |->
                             IF b = 1 THEN Bump(res, cell, amp) ELSE Float32Array(res * res)]
          /\ textureData = TextureArray(res)
    /\ preferGPU = FALSE
    /\ useGPU = FALSE
    /\ gpuSimulation = "null"
    /\ ripples = <<>>
    /\ waveSpeed = waveSpeedDefault
    /\ damping = dampingDefault
    /\ edgeFadeWidth = edgeFadeWidthDefault
    /\ edgeFadeStrength = edgeFadeStrengthDefault
    /\ heightCurrent = 1
    /\ heightPrevious = 2
    /\ heightNext = 3
    /\ heightTexture = 1
    /\ GPUAbsent
    /\ AppAbsent
    /\ HistInit

\* The texture loop of update() on the field.
TextureWrite ==
    /\ textureData' = WriteTexture(buffers[heightCurrent], resolution)
    /\ UNCHANGED <<constructed, resolution, preferGPU, useGPU, gpuSimulation, ripples,
                   waveSpeed, damping, edgeFadeWidth, edgeFadeStrength, buffers,
                   heightCurrent, heightPrevious, heightNext, heightTexture>>
    /\ UNCHANGED <<gpuVars, appVars, histVars>>

\* LakeSurface.update() on the field, the mesh having as many segments as
\* the grid has cells per side.
LakeRead ==
    /\ lakePositions' = LakeUpdate(buffers[heightCurrent], resolution, resolution)
    /\ UNCHANGED <<pc, tick, impacts, impactIndex, raindrops, reads,
                   causticsRenderer, audioSystem>>
    /\ UNCHANGED <<constructed, simVars, gpuVars, histVars>>

NextNormals == TextureWrite \/ LakeRead

SpecNormals == InitNormals /\ [][NextNormals]_vars

\* ================================================================ claims
\* The pending queue of whichever simulation object exists.
PendingQueue == ripples \o pendingImpacts

IsApp == constructed = "App"
IsCPU == constructed \in {"RippleSimulation", "App"}
IsGPU == constructed = "GPURippleSimulation"

OutOfBounds(x, z) ==
    x < -10 * Scale \/ x > 10 * Scale \/ z < -10 * Scale \/ z > 10 * Scale

\* C2 -- out-of-bounds impacts are no-ops: an addRipple call whose point lies
\* outside the lake changes neither the pending queue nor any grid or
\* texture of the simulation, in the CPU and in the GPU path.
C2_OutOfBoundsNoOp ==
    [][(nRipples' = nRipples + 1 /\ OutOfBounds(lastCall'.x, lastCall'.z))
          => UNCHANGED <<simVars, gpuVars>>]_vars

\* An out-of-bounds addRipple has just returned on a field that is not flat.
C2_Witness ==
    /\ lastCall.op = "addRipple"
    /\ OutOfBounds(lastCall.x, lastCall.z)
    /\ acceptedLog # <<>>
    /\ nUpdates >= 1

\* C3 -- every accepted impact is injected exactly once: the impacts injected
\* so far followed by the pending ones are exactly the accepted ones, in
\* order, and the pending queue is empty after every update().
C3_InjectedExactlyOnce ==
    /\ injectedLog \o PendingQueue = acceptedLog
    /\ lastCall.op = "update" => PendingQueue = <<>>

\* One impact was injected by an earlier update and another is pending.
C3_Witness ==
    /\ Len(injectedLog) >= 1
    /\ Len(PendingQueue) >= 1
    /\ nUpdates >= 2

\* What getHeightTexture() of the object under test returns.
ExposedTexture == IF IsGPU THEN GPUgetHeightTexture ELSE getHeightTexture

\* C4 -- getHeightTexture() returns the same object before and after every
\* update(), in the GPU path as in the CPU path.
C4_SameTextureObject ==
    [][(nUpdates' = nUpdates + 1) => ExposedTexture' = ExposedTexture]_vars

\* The wave dispatches issued so far, in order.
WaveDispatches == SelectSeq(dispatches, LAMBDA d : d.kind = "wave")

\* C5 -- GPU path: once an update has run, getHeightTexture() is the
\* destination of the last wave dispatch and not its source; it is textureB
\* exactly when pingPong = 1 and textureA exactly when pingPong = 0.
C5_TextureIsLastDestination ==
    (IsGPU /\ nUpdates >= 1) =>
        LET last == dispatches[Len(dispatches)]
        IN /\ last.kind = "wave"
           /\ GPUgetHeightTexture = last.dst
           /\ GPUgetHeightTexture # last.src
           /\ (GPUgetHeightTexture = "B") <=> (pingPong = 1)
           /\ (GPUgetHeightTexture = "A") <=> (pingPong = 0)

\* Three updates have run, the last one writing textureB.
C5_Witness == IsGPU /\ nUpdates >= 3 /\ pingPong = 1

\* C6 -- GPU path, strict ping-pong: update number t issues exactly one wave
\* dispatch; the first goes A -> B, each later one reads what the one before
\* wrote and writes what it read, and no dispatch reads and writes the same
\* texture.
C6_StrictPingPong ==
    IsGPU =>
        /\ Len(WaveDispatches) = nUpdates
        /\ \A i \in 1 .. Len(WaveDispatches) :
              LET d == WaveDispatches[i]
              IN /\ d.tick = i
                 /\ d.src # d.dst
                 /\ i = 1 => (d.src = "A" /\ d.dst = "B")
                 /\ i > 1 => /\ d.src = WaveDispatches[i - 1].dst
                             /\ d.dst = WaveDispatches[i - 1].src

\* Three updates have run, with an impact dispatch among the wave dispatches.
C6_Witness ==
    /\ IsGPU
    /\ nUpdates >= 3
    /\ \E i \in 1 .. Len(dispatches) : dispatches[i].kind = "impact"

\* The pending queue after addRipple was called for each impact in turn.
RECURSIVE QueueOf(_, _)
QueueOf(queue, imps) ==
    IF imps = <<>> THEN queue
    ELSE QueueOf(PushRipple(queue, Head(imps).x, Head(imps).z, Head(imps).strength),
                 Tail(imps))

\* The dispatches an update() adds to those issued before it.
NewDispatches == SubSeq(dispatches', Len(dispatches) + 1, Len(dispatches'))

\* C7 -- ordering within a tick: the grid the wave step of an update() reads
\* is the source grid (CPU: heightCurrent; GPU: the texture pingPong selects)
\* with every pending impact applied, the GPU impact dispatches all preceding
\* the wave dispatch and targeting its source; and in the animation loop the
\* simulation update of frame t starts with every impact of that frame's
\* raindrop update queued, and every consumer read of frame t happens after
\* exactly t simulation updates.
C7_InjectionBeforeWaveStep ==
    [][/\ (nUpdates' = nUpdates + 1) =>
             /\ IsCPU => waveRead' = InjectAll(buffers[heightCurrent], ripples, resolution)
             /\ IsGPU =>
                   LET src == IF pingPong = 0 THEN "A" ELSE "B"
                       n == Len(NewDispatches)
                   IN /\ waveRead' = GPUInjectAll(textures[src], pendingImpacts, resolution)
                      /\ n = Len(pendingImpacts) + 1
                      /\ NewDispatches[n].kind = "wave" /\ NewDispatches[n].src = src
                      /\ \A i \in 1 .. (n - 1) :
                            NewDispatches[i].kind = "impact" /\ NewDispatches[i].dst = src
             /\ IsApp => /\ nUpdates' = tick
                         /\ impactIndex = Len(impacts) + 1
                         /\ ripples = QueueOf(<<>>, impacts)
       /\ (reads' # reads) =>
             /\ Len(reads') = Len(reads) + 1
             /\ reads'[Len(reads')].updates = reads'[Len(reads')].tick
             /\ lastCall.op = "update"
      ]_vars

\* The second frame of the animation loop is complete: its raindrop update
\* produced an impact, which was queued and injected by its simulation
\* update, and the lake mesh and the renderer have read the result.
C7_Witness ==
    /\ IsApp
    /\ tick = 2
    /\ pc = "raindrops"
    /\ Len(impacts) >= 1
    /\ Len(injectedLog) >= Len(impacts)
    /\ nUpdates = 2
    /\ \E i \in 1 .. Len(reads) : reads[i].consumer = "lake" /\ reads[i].tick = 2
    /\ \E i \in DOMAIN lakePositions : lakePositions[i].z # 0

\* Cells of row or column 0 or res - 1.
BoundaryCells(res) == { i \in Cells(res) : ~IsInterior(i % res, i \div res, res) }

\* C8 -- after every update() every boundary cell of the authoritative height
\* grid exposed to consumers has height 0, in the CPU and in the GPU path.
C8_BoundaryZero ==
    (lastCall.op = "update") =>
        \A i \in BoundaryCells(resolution) :
            IF IsGPU
            THEN textures[GPUgetHeightTexture][i].r = 0
            ELSE buffers[heightCurrent][i] = 0 /\ textureData[i].r = 0

RECURSIVE SumSquaresUpTo(_, _)
SumSquaresUpTo(grid, n) ==
    IF n < 0 THEN 0 ELSE grid[n] * grid[n] + SumSquaresUpTo(grid, n - 1)

\* Sum of the squared heights of a grid (in millionths).
SumSquares(grid) == SumSquaresUpTo(grid, resolution * resolution - 1)

\* C9 -- energy decay (CPU path): an update() that starts with an empty
\* pending queue and damping < 1 never increases the sum of squared heights
\* of heightCurrent.
C9_EnergyDecay ==
    [][(IsCPU /\ nUpdates' = nUpdates + 1 /\ ripples = <<>> /\ damping < Scale)
          => SumSquares(buffers'[heightCurrent']) <= SumSquares(buffers[heightCurrent])]_vars

\* Height of cell (x, y) of the authoritative CPU grid.
HeightAt(x, y) == buffers[heightCurrent][y * resolution + x]

\* The scenario's configuration is set, its single impact at the centre was
\* accepted, and exactly one update() has run.
ScenarioRan ==
    /\ resolution = Scenario.resolution
    /\ waveSpeed = Scenario.waveSpeed
    /\ damping = Scenario.damping
    /\ edgeFadeWidth = Scenario.edgeFadeWidth
    /\ acceptedLog = << [u |-> Scale \div 2, v |-> Scale \div 2,
                         strength |-> Scenario.strength] >>
    /\ nUpdates = 1

\* C10 -- concrete scenario: resolution 16, waveSpeed 0.3, damping 0.99, no
\* edge fade, one impact of strength 1.0 at cell (8,8): after one update()
\* the height of (8,8) is below 1.0 and strictly above the height of each
\* of its four neighbours.
C10_CentreBelowOneAndPeak ==
    ScenarioRan =>
        /\ HeightAt(8, 8) < Scale
        /\ HeightAt(8, 8) > HeightAt(7, 8)
        /\ HeightAt(8, 8) > HeightAt(9, 8)
        /\ HeightAt(8, 8) > HeightAt(8, 7)
        /\ HeightAt(8, 8) > HeightAt(8, 9)

\* Exactly one impact was accepted, at the centre of the lake.
SingleCentreImpact ==
    /\ Len(acceptedLog) = 1
    /\ acceptedLog[1].u = Scale \div 2
    /\ acceptedLog[1].v = Scale \div 2

\* h(cx + dx, cy + dy) = h(cx - dy, cy + dx) about the centre cell
\* (floor(res / 2), floor(res / 2)), for every cell whose image is a cell.
RotationSymmetric(grid, res) ==
    LET c == res \div 2
    IN \A x, y \in 0 .. (res - 1) :
          LET rx == c - (y - c)
              ry == c + (x - c)
          IN (rx \in 0 .. (res - 1) /\ ry \in 0 .. (res - 1))
                => grid[y * res + x] = grid[ry * res + rx]

\* C11 (as stated) -- single-impact symmetry: with edge fade disabled, after
\* one impact at the lake centre and any number of updates the height field
\* is symmetric under a quarter turn about the centre cell, for every
\* resolution, even as well as odd.
C11_SymmetryEveryResolution ==
    (IsCPU /\ edgeFadeWidth = 0 /\ SingleCentreImpact)
        => RotationSymmetric(buffers[heightCurrent], resolution)

\* C11 (amended) -- single-impact symmetry: with edge fade disabled, after
\* one impact at the lake centre and any number of updates the height field
\* is symmetric under a quarter turn about the centre cell, for every odd
\* resolution.
C11_SymmetryOddResolution ==
    (IsCPU /\ edgeFadeWidth = 0 /\ SingleCentreImpact /\ resolution % 2 = 1)
        => RotationSymmetric(buffers[heightCurrent], resolution)

\* On an odd grid with edge fade disabled the centre impact has spread for
\* three updates.
C11_Witness ==
    /\ IsCPU /\ edgeFadeWidth = 0 /\ SingleCentreImpact /\ resolution % 2 = 1
    /\ nUpdates >= 3
    /\ LET c == resolution \div 2
       IN buffers[heightCurrent][c * resolution + c + 2] # 0

\* The 4-channel field consumers are handed.
ExposedField == IF IsGPU THEN textures[GPUgetHeightTexture] ELSE textureData

\* The normal a cell of the field should carry: twice the height difference
\* of its left and right, and of its upper and lower, neighbours in the same
\* field, each neighbour replaced by the cell itself at the border.
NormalOf(field, i, res) ==
    LET x == i % res
        y == i \div res
        hL == IF x > 0 THEN field[i - 1].r ELSE field[i].r
        hR == IF x < res - 1 THEN field[i + 1].r ELSE field[i].r
        hU == IF y > 0 THEN field[i - res].r ELSE field[i].r
        hD == IF y < res - 1 THEN field[i + res].r ELSE field[i].r
    IN [x |-> 2 * (hL - hR), y |-> 2 * (hU - hD)]

\* C12 -- after every update(), in both paths, every cell of the exposed
\* field has normal.x = 2 (left.height - right.height) and
\* normal.y = 2 (up.height - down.height), the heights being those of the
\* same exposed field with neighbours clamped at the border; the second
\* channel of the CPU field is 0.
C12_NormalsOfExposedHeights ==
    (lastCall.op = "update") =>
        \A i \in Cells(resolution) :
            /\ ExposedField[i].b = NormalOf(ExposedField, i, resolution).x
            /\ ExposedField[i].a = NormalOf(ExposedField, i, resolution).y
            /\ IsCPU => ExposedField[i].g = 0

\* Index of the centre cell (floor(res / 2), floor(res / 2)).
CentreIndex == (resolution \div 2) * resolution + resolution \div 2

\* heightCurrent is positive at the centre cell and 0 everywhere else.
CentreBump ==
    /\ buffers[heightCurrent][CentreIndex] > 0
    /\ \A i \in Cells(resolution) : i # CentreIndex => buffers[heightCurrent][i] = 0

\* The texture loop has run on the bump.
BumpTextureWritten == CentreBump /\ textureData[CentreIndex].r > 0

\* The lake mesh was updated from the bump.
BumpLakeRead == CentreBump /\ lakePositions # <<>>

\* The mesh vertices mapped to the height-field cell idx.
VerticesOf(idx) ==
    { v \in DOMAIN lakePositions :
        LET c == LakeCell(v \div (resolution + 1), v % (resolution + 1),
                          resolution, resolution)
        IN c.hy * resolution + c.hx = idx }

\* C13 (as stated) -- normal field consistency: for a single positive bump at
\* the centre cell, normal.x of the cell immediately left of the centre is
\* positive, that of the cell immediately right of it is negative, and the
\* two have equal magnitude.
C13_LeftPositiveRightNegative ==
    /\ BumpTextureWritten =>
          /\ textureData[CentreIndex - 1].b > 0
          /\ textureData[CentreIndex + 1].b < 0
          /\ textureData[CentreIndex - 1].b = -textureData[CentreIndex + 1].b
    /\ BumpLakeRead =>
          \A v \in VerticesOf(CentreIndex - 1), w \in VerticesOf(CentreIndex + 1) :
              /\ lakePositions[v].nx > 0
              /\ lakePositions[w].nx < 0
              /\ lakePositions[v].nx = -lakePositions[w].nx

\* C13 (amended) -- normal field consistency: for a single positive bump at
\* the centre cell, normal.x of the cell immediately left of the centre is
\* negative (the height rises to the right there), that of the cell
\* immediately right of it is positive, and the two have equal magnitude, in
\* the texture written by update() and in the lake mesh.
C13_LeftNegativeRightPositive ==
    /\ BumpTextureWritten =>
          /\ textureData[CentreIndex - 1].b < 0
          /\ textureData[CentreIndex + 1].b > 0
          /\ textureData[CentreIndex - 1].b = -textureData[CentreIndex + 1].b
    /\ BumpLakeRead =>
          \A v \in VerticesOf(CentreIndex - 1), w \in VerticesOf(CentreIndex + 1) :
              /\ lakePositions[v].nx < 0
              /\ lakePositions[w].nx > 0
              /\ lakePositions[v].nx = -lakePositions[w].nx

\* The texture and the lake mesh have both been computed from a centre bump,
\* and both cells beside the centre have mesh vertices.
C13_Witness ==
    /\ BumpTextureWritten
    /\ BumpLakeRead
    /\ VerticesOf(CentreIndex - 1) # {}
    /\ VerticesOf(CentreIndex + 1) # {}

\* C14 -- construction with a resolution <= 0 fails: no simulation object
\* whose resolution is <= 0 exists, and none reaches addRipple or update.
C14_InvalidResolutionRejected ==
    (constructed # "none" /\ lastCall.op \in {"addRipple", "update"})
        => resolution > 0

\* A RippleSimulation object exists, made by a caller or by the App.
IsWrapper == constructed \in {"RippleSimulation", "App"}

\* C15 -- the path is selected once: useGPU changes only inside init(); once
\* init() has run no call changes what isGPUMode() returns; useGPU = true
\* implies a GPU simulation object; and the impacts addRipple accepts are
\* queued on, and injected from, the queue of the selected path only.
C15_PathSelectedOnce ==
    [][IsWrapper =>
          /\ (useGPU' # useGPU) => lastCall'.op = "init"
          /\ (heightTexture # 0) => (isGPUMode' = isGPUMode)
          /\ useGPU' => gpuSimulation' # "null"
          /\ ~useGPU' => /\ pendingImpacts' = <<>>
                         /\ injectedLog' \o ripples' = acceptedLog'
          /\ useGPU' => /\ ripples' = <<>>
                        /\ injectedLog' \o pendingImpacts' = acceptedLog'
      ]_vars

\* A simulation that prefers the GPU was initialised on a runtime where the
\* GPU simulation could be built, and has since queued and injected impacts.
C15_Witness ==
    /\ IsWrapper
    /\ preferGPU
    /\ heightTexture # 0
    /\ Len(injectedLog) >= 1
    /\ Len(ripples) >= 1
    /\ nUpdates >= 2

\* C16 -- the simulation runs on the GPU: after an init() with preferGPU set,
\* WebGPU compute supported and the GPU simulation constructed, isGPUMode()
\* is true and addRipple, update and getHeightTexture delegate to it.
C16_GPUUsedWhenAvailable ==
    (IsWrapper /\ lastCall.op = "init" /\ lastCall.gpuAvailable)
        => (isGPUMode /\ Delegates)

\* The simulation's own arrays, by identity.
OwnedArrays == {heightCurrent, heightPrevious, heightNext}

\* C18 -- consumers never receive a mutable handle to the grids: the array
\* getHeightData() returns in CPU mode, and the array the lake mesh reads each
\* frame, is none of heightCurrent, heightPrevious and heightNext.
C18_NoAliasedHandle ==
    (IsWrapper /\ heightTexture # 0 /\ ~useGPU) =>
        /\ getHeightData \notin OwnedArrays
        /\ \A i \in 1 .. Len(reads) :
              reads[i].consumer = "lake" => reads[i].heights \notin 1 .. 3

\* The three settings a compute node would hold if built now.
CurrentSettings(cr) ==
    [intensity |-> cr.intensity, waterDepth |-> cr.waterDepth,
     light |-> cr.lightDirection]

\* The three settings a compute node was built with.
NodeSettings(node) ==
    [intensity |-> node.intensity, waterDepth |-> node.waterDepth,
     light |-> node.light]

\* C17 -- CausticsRenderer is safely reconfigurable: every update() that
\* dispatches a compute node dispatches one built from the values
\* setIntensity, setLightDirection and setWaterDepth stored last, and no
\* setter changes the caustics output already produced.
C17_UpdateUsesLatestSettings ==
    [][/\ (lastCall'.op = "causticsUpdate" /\ causticsRenderer'.computeNode.kind # "null")
             => /\ causticsRenderer'.causticsStorage = causticsRenderer'.computeNode
                /\ NodeSettings(causticsRenderer'.computeNode)
                      = CurrentSettings(causticsRenderer')
       /\ (lastCall'.op \in {"setIntensity", "setLightDirection", "setWaterDepth"})
             => causticsRenderer'.causticsStorage = causticsRenderer.causticsStorage
      ]_vars

\* True when only an AudioSystem exists.
IsAudio == constructed = "AudioSystem"

\* C19: any two notes that actually start (FAUST keyOn or a fallback voice)
\* are at least minTimeBetweenNotes = 50 ms apart on the clock triggerNote
\* reads, and one processImpacts call, however many impacts of the same
\* frame it carries, starts at most one note.
C19_NotesAtLeast50msApart ==
    IsAudio =>
        /\ audioSystem.prevStart >= 0 =>
              audioSystem.lastStart - audioSystem.prevStart >= minTimeBetweenNotes
        /\ lastCall.op \in {"triggerNote", "processImpacts"} =>
              audioSystem.startedInCall <= 1

\* A processImpacts call carrying several impacts has started exactly one
\* note, a fallback voice, and an earlier note had started before it.
C19_Witness ==
    /\ IsAudio
    /\ lastCall.op = "processImpacts"
    /\ lastCall.n = MaxImpacts
    /\ audioSystem.startedInCall = 1
    /\ audioSystem.prevStart >= 0
    /\ audioSystem.lastStart = audioSystem.now - 1
    /\ audioSystem.useFallback

\* C20: in fallback mode, whatever triggerFallbackNote calls and decayTime
\* changes have happened, at most maxVoices = 16 voices of activeVoices have
\* their endTime in the future, and a triggerFallbackNote call made while 16
\* voices are active creates no audio node and tracks no new voice.
C20_PolyphonyLimit ==
    [][ IsAudio =>
          /\ Len(LiveVoices(audioSystem'.activeVoices, audioSystem'.now)) <= maxVoices
          /\ ( /\ lastCall'.op = "triggerFallbackNote"
               /\ Len(LiveVoices(audioSystem.activeVoices, audioSystem.now)) >= maxVoices )
             => /\ audioSystem'.nodesCreated = 0
                /\ audioSystem'.activeVoices =
                      LiveVoices(audioSystem.activeVoices, audioSystem.now) ]_vars

\* A note has been refused at full polyphony, after the decay time was
\* changed and some earlier voices had expired.
C20_Witness ==
    /\ IsAudio
    /\ lastCall.op = "triggerFallbackNote"
    /\ audioSystem.nodesCreated = 0
    /\ Len(audioSystem.activeVoices) = maxVoices
    /\ audioSystem.decayChanges > 0
    /\ audioSystem.now > 0
    /\ \E i, j \in DOMAIN audioSystem.activeVoices :
          i < j /\ audioSystem.activeVoices[i] > audioSystem.activeVoices[j]

\* True when only an AudioSystem exists and its init() calls are followed.
IsLife == IsAudio /\ "calls" \in DOMAIN audioSystem

\* The init() calls.
InitCalls == DOMAIN audioSystem.calls

\* C21: an init() whose FAUST loading fails after the audio context was
\* created returns true with isInitialized and useFallback both true, and
\* every note started from then on is a fallback voice; an init() that
\* returns false (the context could not be created or resumed) leaves
\* isInitialized as it was, and while isInitialized is false triggerNote
\* starts nothing.
C21_FaustFallback ==
    [][ IsLife =>
          /\ \A i \in InitCalls :
                /\ ( /\ audioSystem.calls[i].faust # "failed"
                     /\ audioSystem'.calls[i].faust = "failed" )
                   => /\ audioSystem'.calls[i].returned = "true"
                      /\ audioSystem'.isInitialized
                      /\ audioSystem'.useFallback
                /\ ( /\ audioSystem.calls[i].returned # "false"
                     /\ audioSystem'.calls[i].returned = "false" )
                   => audioSystem'.isInitialized = audioSystem.isInitialized
          /\ ( /\ lastCall'.op = "triggerNote"
               /\ audioSystem'.startedInCall > 0
               /\ \E i \in InitCalls : audioSystem.calls[i].faust = "failed" )
             => audioSystem'.nodesCreated = 15
          /\ ( lastCall'.op = "triggerNote" /\ ~audioSystem.isInitialized )
             => /\ audioSystem'.startedInCall = 0
                /\ audioSystem'.nodesCreated = 0 ]_vars

\* One init() has returned false, another has fallen back after a failed
\* FAUST load, and a note has then started as a fallback voice.
C21_Witness ==
    /\ IsLife
    /\ \E i, j \in InitCalls :
          /\ audioSystem.calls[i].returned = "false"
          /\ audioSystem.calls[j].faust = "failed"
    /\ lastCall.op = "triggerNote"
    /\ audioSystem.startedInCall = 1
    /\ audioSystem.nodesCreated = 15

\* C29: whatever the interleaving of two or more init() calls (dispose()
\* not being called), at most one AudioContext, one master gain node and one
\* FAUST node are created.
C29_AtMostOneOfEach ==
    (IsLife /\ audioSystem.disposals = 0) =>
        /\ audioSystem.contextsCreated <= 1
        /\ audioSystem.gainsCreated <= 1
        /\ audioSystem.faustCreated <= 1

\* C30: after any init() and dispose() calls, whenever isInitialized is
\* true, useFallback is true exactly when FAUST loading failed in the most
\* recent initialisation.
C30_FallbackIffLastLoadFailed ==
    (IsLife /\ audioSystem.isInitialized) =>
        (audioSystem.useFallback <=> audioSystem.lastFaust = "failed")

\* The interior cells of a res x res grid.
InteriorCells(res) == { i \in Cells(res) : IsInterior(i % res, i \div res, res) }

\* absorption = edgeFadeStrength + (1 - edgeFadeStrength) * smoothstep
AbsorptionAt(idx, res, fadeWidth, fadeStrength) ==
    fadeStrength + Mul(Scale - fadeStrength,
                       getEdgeFactor(idx % res, idx \div res, res, fadeWidth))

\* (2 current - previous + waveSpeed^2 laplacian) damping absorption
PositionForm(current, previous, left, right, up, down, ws, damp, absorption) ==
    Mul(Mul(2 * current - previous
              + Mul(Mul(ws, ws), left + right + up + down - 4 * current),
            damp),
        absorption)

\* C22 -- CPU position-form step: the value update() commits for every
\* interior cell is (2 current - previous + waveSpeed^2 (left + right + up +
\* down - 4 current)) damping absorption, with current and the neighbours
\* read from the grid that was authoritative before the step, after the
\* injection, and previous from the grid the step before read as current;
\* the grid read is left as it was by the wave loop.
C22_PositionFormStep ==
    [][ (nUpdates' = nUpdates + 1 /\ IsCPU) =>
          LET G == InjectAll(buffers[heightCurrent], ripples, resolution)
              P == buffers[heightPrevious]
          IN /\ nUpdates >= 1 => P = waveRead
             /\ buffers'[heightPrevious'] = G
             /\ \A idx \in InteriorCells(resolution) :
                   buffers'[heightCurrent'][idx] =
                      PositionForm(G[idx], P[idx], G[idx - 1], G[idx + 1],
                                   G[idx - resolution], G[idx + resolution],
                                   waveSpeed, damping,
                                   AbsorptionAt(idx, resolution, edgeFadeWidth,
                                                edgeFadeStrength)) ]_vars

\* An update has just committed a non-zero interior cell whose current and
\* previous heights before the step were non-zero and different.
C22_Witness ==
    /\ IsCPU
    /\ lastCall.op = "update"
    /\ nUpdates >= 2
    /\ \E idx \in InteriorCells(resolution) :
          /\ buffers[heightCurrent][idx] # 0
          /\ buffers[heightPrevious][idx] # 0
          /\ buffers[heightNext][idx] # 0
          /\ buffers[heightNext][idx] # buffers[heightPrevious][idx]

\* What one impact adds to cell idx: strength (1 - d/3)^2 when the cell is
\* at Euclidean distance d <= 3 from the centre cell, else nothing.
AddedBy(ripple, idx, res) ==
    LET dx == (idx % res) - ((ripple.u * res) \div Scale)
        dy == (idx \div res) - ((ripple.v * res) \div Scale)
    IN IF dx * dx + dy * dy <= radius * radius
       THEN Impulse(ripple.strength, dx, dy)
       ELSE 0

\* What the impacts of a queue add to cell idx together.
RECURSIVE AddedByAll(_, _, _)
AddedByAll(queue, idx, res) ==
    IF queue = <<>> THEN 0
    ELSE AddedBy(Head(queue), idx, res) + AddedByAll(Tail(queue), idx, res)

\* C23 -- CPU impact injection: update() adds, for every queued impact,
\* strength (1 - d/3)^2 to the prior value of exactly the in-grid cells at
\* Euclidean distance d <= 3 from the centre cell (floor(u res),
\* floor(v res)); overlapping impacts sum; every other cell of heightCurrent
\* and all of heightPrevious are left as they were by the injection.
C23_InjectionAdds ==
    [][ (nUpdates' = nUpdates + 1 /\ IsCPU) =>
          /\ \A idx \in Cells(resolution) :
                buffers'[heightPrevious'][idx] =
                   buffers[heightCurrent][idx] + AddedByAll(ripples, idx, resolution)
          /\ buffers'[heightNext'] = buffers[heightPrevious] ]_vars

\* The cells an impact reaches.
Reached(ripple, res) == { idx \in Cells(res) : AddedBy(ripple, idx, res) # 0 }

\* One update has injected two impacts that reach a common cell, but not
\* the same cells.
C23_Witness ==
    /\ IsCPU
    /\ lastCall.op = "update"
    /\ nUpdates = 1
    /\ Len(injectedLog) = 2
    /\ Reached(injectedLog[1], resolution) \cap Reached(injectedLog[2], resolution) # {}
    /\ Reached(injectedLog[1], resolution) # Reached(injectedLog[2], resolution)

\* Distance of cell idx from the nearest edge, in cells.
EdgeDistance(idx, res) ==
    Min2(Min2(idx % res, res - 1 - (idx % res)),
         Min2(idx \div res, res - 1 - (idx \div res)))

\* t * t * (3 - 2 * t)
Smoothstep(t) == Mul(Mul(t, t), 3 * Scale - 2 * t)

\* edgeFadeStrength + (1 - edgeFadeStrength) smoothstep(t), with
\* t = distance / edgeFadeWidth clamped to [0, 1].
ClampedAbsorption(dist, fadeWidth, fadeStrength) ==
    LET t == IF dist >= fadeWidth THEN Scale
             ELSE Min2(Scale, RoundDiv(dist * Scale, fadeWidth))
    IN fadeStrength + Mul(Scale - fadeStrength, Smoothstep(t))

\* (2 current - previous + waveSpeed^2 laplacian) damping of cell idx.
DampedWave(G, P, idx, res, ws, damp) ==
    PositionForm(G[idx], P[idx], G[idx - 1], G[idx + 1], G[idx - res], G[idx + res],
                 ws, damp, Scale)

\* C24 -- edge absorption: the multiplier update() applies to the damped
\* next height of every interior cell is edgeFadeStrength +
\* (1 - edgeFadeStrength) smoothstep(t), t = distanceToNearestEdge /
\* edgeFadeWidth clamped to [0, 1]; it is exactly 1 at distance >=
\* edgeFadeWidth and everywhere when edgeFadeWidth = 0, lies in
\* [edgeFadeStrength, 1] for a strength in [0, 1], does not increase
\* towards an edge, and multiplies the height after the damping.
C24_EdgeAbsorption ==
    [][ (nUpdates' = nUpdates + 1 /\ IsCPU) =>
          LET G == InjectAll(buffers[heightCurrent], ripples, resolution)
              P == buffers[heightPrevious]
              Absorption(idx) ==
                  ClampedAbsorption(EdgeDistance(idx, resolution),
                                    edgeFadeWidth, edgeFadeStrength)
          IN \A idx \in InteriorCells(resolution) :
                /\ buffers'[heightCurrent'][idx] =
                      Mul(DampedWave(G, P, idx, resolution, waveSpeed, damping),
                          Absorption(idx))
                /\ (EdgeDistance(idx, resolution) >= edgeFadeWidth \/ edgeFadeWidth = 0)
                      => Absorption(idx) = Scale
                /\ (0 <= edgeFadeStrength /\ edgeFadeStrength <= Scale)
                      => /\ edgeFadeStrength <= Absorption(idx)
                         /\ Absorption(idx) <= Scale
                         /\ \A other \in InteriorCells(resolution) :
                               EdgeDistance(other, resolution)
                                  <= EdgeDistance(idx, resolution)
                               => Absorption(other) <= Absorption(idx) ]_vars

\* With a fade width of 3 cells and the default strength an update has
\* committed non-zero heights one cell from the edge, where the absorption
\* acts, and three cells from it, where it does not.
C24_Witness ==
    /\ constructed = "RippleSimulation"
    /\ resolution = AbsorptionResolution
    /\ lastCall.op = "update"
    /\ edgeFadeWidth = 3
    /\ edgeFadeStrength = edgeFadeStrengthDefault
    /\ \E near, far \in InteriorCells(resolution) :
          /\ EdgeDistance(near, resolution) = 1
          /\ EdgeDistance(far, resolution) = 3
          /\ buffers[heightCurrent][near] # 0
          /\ buffers[heightCurrent][far] # 0

\* C25 -- caustics curvature: the curvature behind the intensity is the
\* 4-neighbour Laplacian of the height channel, so for a uniform height
\* field, of any constant height and with zero normals, the intensity the
\* node writes to every cell is clamp(0.3 intensity, 0, 2).
C25_UniformFieldBaseIntensity ==
    ( /\ constructed = "CausticsRenderer.computeNode"
      /\ causticsRenderer.dispatched
      /\ causticsRenderer.heightTexel.b = 0
      /\ causticsRenderer.heightTexel.a = 0 )
    => causticsRenderer.output.g =
          Clamp(Mul(3 * (Scale \div 10), causticsRenderer.intensity), 0, 2 * Scale)

\* C26 -- CPU buffer lifecycle: the three arrays allocated by the
\* constructor are the only grids ever used; heightCurrent, heightPrevious
\* and heightNext always are those three arrays, pairwise distinct and of
\* length resolution^2; an update() rotates the roles (previous <- old
\* current, current <- old next, next <- old previous) and nothing else
\* changes them.
C26_BufferLifecycle ==
    [][ (IsCPU /\ buffers # <<>>) =>
          /\ DOMAIN buffers' = DOMAIN buffers
          /\ DOMAIN buffers' = 1 .. 3
          /\ {heightCurrent', heightPrevious', heightNext'} = DOMAIN buffers'
          /\ \A b \in DOMAIN buffers' :
                DOMAIN buffers'[b] = 0 .. (resolution' * resolution' - 1)
          /\ resolution' = resolution
          /\ IF nUpdates' = nUpdates + 1
             THEN /\ heightPrevious' = heightCurrent
                  /\ heightCurrent' = heightNext
                  /\ heightNext' = heightPrevious
             ELSE UNCHANGED <<heightCurrent, heightPrevious, heightNext>> ]_vars

\* Three updates have taken every array through every role, back to where
\* it started, with an impact injected on the way.
C26_Witness ==
    /\ IsCPU
    /\ nUpdates = 3
    /\ heightCurrent = 1 /\ heightPrevious = 2 /\ heightNext = 3
    /\ injectedLog # <<>>
    /\ \A b \in DOMAIN buffers : \E i \in DOMAIN buffers[b] : buffers[b][i] # 0

\* True when a RaindropSystem exists.
HasRaindrops == constructed \in {"RaindropSystem", "App"} /\ raindrops # <<>>

\* The sum of f over the slots 0 .. n - 1.
RECURSIVE SumSlots(_, _)
SumSlots(f, n) == IF n = 0 THEN 0 ELSE f[n - 1] + SumSlots(f, n - 1)

\* C27 -- raindrop impacts are delivered exactly once: in every
\* RaindropSystem.update() a slot contributes at most one impact, a slot
\* that does is inactive afterwards, a slot that was inactive and was not
\* respawned contributes none, no particle spawned lands twice, no active
\* particle is left at or below the water, and the list returned holds
\* exactly the impacts of this call.
C27_ImpactsDeliveredOnce ==
    [][ (HasRaindrops /\ tick' = tick + 1) =>
          LET slots == DOMAIN raindrops.lifetimes
              new == [i \in slots |-> raindrops'.landed[i] - raindrops.landed[i]]
          IN /\ \A i \in slots :
                   /\ new[i] \in {0, 1}
                   /\ new[i] = 1 => raindrops'.lifetimes[i] <= 0
                   /\ ( /\ raindrops.lifetimes[i] <= 0
                        /\ raindrops'.spawned[i] = raindrops.spawned[i] )
                      => new[i] = 0
                   /\ raindrops'.landed[i] <= raindrops'.spawned[i]
                   /\ raindrops'.lifetimes[i] > 0 => raindrops'.positions[i].y > 0
             /\ impacts' = raindrops'.impacts
             /\ Len(impacts') = SumSlots(new, MaxParticles) ]_vars

\* A particle landed in an earlier update; the update just run spawned
\* nothing, and the slot, inactive since, contributed no impact to it.
C27_Witness ==
    /\ constructed = "RaindropSystem"
    /\ tick >= 2
    /\ lastCall.op = "raindropsUpdate"
    /\ lastCall.delta < spawnInterval
    /\ impacts = <<>>
    /\ \E i \in DOMAIN raindrops.lifetimes :
          /\ raindrops.landed[i] = 1
          /\ raindrops.spawned[i] = 1
          /\ raindrops.lifetimes[i] <= 0
          /\ raindrops.positions[i].y = -100 * Scale

\* C28 -- every impact the CPU addRipple has queued has its centre cell
\* inside the grid: 0 <= floor(u res) < resolution and
\* 0 <= floor(v res) < resolution, impacts at the lake border (u = 1 or
\* v = 1) included.
C28_CentreCellInGrid ==
    (IsCPU /\ resolution > 0) =>
        \A k \in DOMAIN ripples :
            /\ 0 <= CentreCell(ripples[k].u, resolution)
            /\ CentreCell(ripples[k].u, resolution) < resolution
            /\ 0 <= CentreCell(ripples[k].v, resolution)
            /\ CentreCell(ripples[k].v, resolution) < resolution

====
